---- MODULE Spec2Model ----
(***************************************************************************)
(* Model of the remote monitor's core: the broadcast hub (StatusCache),    *)
(* the polling scheduler (periodic_status_fetch), the SSE viewer handler   *)
(* (get_status_sse), process shutdown (lifespan) and the fleet collector   *)
(* (periodic_status_fetch / get_status over check_host_concurrently).      *)
(*                                                                         *)
(* The program runs on one asyncio event loop: a coroutine runs without    *)
(* interruption from one suspension to the next, so every action below is  *)
(* one such run.  The awaits that really suspend are the remote executor   *)
(* calls, asyncio.gather, asyncio.sleep and asyncio.wait_for.  The queues  *)
(* are created as asyncio.Queue() (api.py:177, maxsize 0): full() is       *)
(* always false and `await client_queue.put(m)` completes without          *)
(* suspending.                                                             *)
(*                                                                         *)
(* Specifications:                                                         *)
(*   Spec         hub + scheduler + viewers + shutdown; a Collecting phase *)
(*                is summarised by the ApiResponse it ends with.           *)
(*   FairSpec     scheduler, timers, registrations and shutdown with the   *)
(*                fairness of the event loop and of time.                  *)
(*   SpecPutFail  the same steps in an environment where a queue's put     *)
(*                may raise (the case handled at api.py:50-52).            *)
(*   SpecCollect  the collector step by step: bastion check, concurrent    *)
(*                member checks, gather, assembly of the ApiResponse.      *)
(***************************************************************************)
EXTENDS Integers, Sequences, FiniteSets, TLC

\* Python's None, for the optional objects of the program
None == [none |-> TRUE]

\* ------------------------------------------------------------------ bounds
\* Number of viewer connections (each owns one asyncio.Queue).
NumViewers == 2
\* Number of Collecting phases a behaviour follows.
MaxCycles == 2

\* Longest monitored_hosts list of a configuration.
MaxMembers == 2
\* GPU indices of a host are 0..MaxGpus-1; a base listing has at most
\* MaxGpus lines.
MaxGpus == 2
MaxLines == 2

Viewers == 1..NumViewers

\* ------------------------------------------------------- program constants
\* config.AppConfig.refresh_interval_clients_sec (default)
refresh_interval_clients_sec == 300
\* config.AppConfig.refresh_interval_no_clients_sec (default)
refresh_interval_no_clients_sec == 1800
\* the literal of the fallback sleep, api.py:171
FallbackSleepSec == 60

VARIABLES
  status_cache,     \* the StatusCache object: its four fields
  client_queue,     \* client_queue[v]: contents of viewer v's asyncio.Queue
  viewer_pc,        \* position of viewer v's connection
  received,         \* messages event_publisher of v has yielded
  sched_pc,         \* position of the periodic_status_fetch task
  wait_timeout,     \* argument of the pending sleep / wait_for, 0 if none
  timer_elapsed,    \* the pending sleep / wait_for timeout has run out
  clock,            \* datetime.now(): advances with every Collecting phase
  cancel_requested, \* broadcast_task.cancel() was called
  life_pc,          \* position of lifespan
  \* history variables (read by the properties only)
  enqueued,         \* enqueued[v]: every put to v's queue, with its origin
  reg_latest,       \* wire message of `latest` when v registered, or None
  reg_in_long_wait, \* a viewer registered during the current long wait
  phase_failed,     \* the Collecting phase that finished last raised
  wait_raised,      \* the wait logic of the current wait raised
  publishes         \* the publishes so far: data, timestamp, the clients
                    \* registered at the call, the puts that raised

hubVars == <<status_cache, client_queue, viewer_pc, received, sched_pc,
             wait_timeout, timer_elapsed, clock, cancel_requested, life_pc,
             enqueued, reg_latest, reg_in_long_wait, phase_failed,
             wait_raised, publishes>>

\* the collector's state (SpecCollect)
VARIABLES
  settings,         \* config.settings: jump_host, monitored_hosts
  executor,         \* executor[alias]: what the remote executor does for alias
  run_pc,           \* run_pc[r]: position of collector run r
  jump_host_status, \* jump_host_status[r]
  task_pc,          \* task_pc[r][i]: position of the i-th member check
  task_result,      \* task_result[r][i]: what the i-th member check returned
  completion,       \* completion[r]: indices in the order the checks finished
  ssh_calls,        \* ssh_calls[r]: executor calls issued, <<check, alias, cmd>>
  response_data     \* response_data[r]: the ApiResponse built, or None

collectVars == <<executor, run_pc, jump_host_status, task_pc, task_result,
                 completion, ssh_calls, response_data>>

\* one host check, get_full_host_status, step by step (SpecHost)
VARIABLES
  checked_config,   \* the MonitoredHostConfig the check is for
  host_pc,          \* position of get_full_host_status
  ssh_results,      \* ssh_results[k]: what call k of ssh_log returned, or None
  ssh_log,          \* commands given to run_ssh_command_async, in order
  metrics_pc,       \* position of the get_host_metrics task
  metrics_result,   \* what the get_host_metrics task returned
  gpu_pc,           \* position of the get_gpu_info task
  gpu_indices,      \* gpu_indices of get_gpu_info
  gpu_result,       \* what the get_gpu_info task returned or raised
  host_status       \* host_status of get_full_host_status; what the call
                    \* returned or raised once host_pc is "done"

hostVars == <<checked_config, host_pc, ssh_results, ssh_log, metrics_pc,
              metrics_result, gpu_pc, gpu_indices, gpu_result, host_status>>

\* one call of a function of parsers.py (SpecParse)
VARIABLES
  parser_call,      \* the call: the function's name and its arguments, or None
  parser_result     \* [returned |-> what the call returned], or None

parseVars == <<parser_call, parser_result>>

vars == <<hubVars, settings, collectVars, hostVars, parseVars>>

\* no call of a parser is followed
ParseIdle == parser_call = None /\ parser_result = None

\* ------------------------------------------------------------ StatusCache

\* StatusCache.__init__
StatusCacheInit ==
  [latest_status_data |-> None, latest_status_timestamp |-> None,
   connected_clients |-> {}, client_activity_event |-> FALSE]

\* StatusCache.update_status
update_status(cache, data, timestamp) ==
  [cache EXCEPT !.latest_status_data = data,
                !.latest_status_timestamp = timestamp]

\* The wire message f"data: {json.dumps({'data': .., 'last_updated': ..})}\n\n":
\* the pair it serialises.
WireMessage(data, timestamp) == [data |-> data, last_updated |-> timestamp]

\* StatusCache.get_latest_status_message
get_latest_status_message(cache) ==
  IF cache.latest_status_data # None
    THEN WireMessage(cache.latest_status_data, cache.latest_status_timestamp)
    ELSE None

\* Variant of add_client: the queue is added, the activity event is not set.
add_client_without_event(cache, queue) ==
  [cache EXCEPT !.connected_clients = @ \cup {queue}]

\* StatusCache.add_client
add_client(cache, queue) ==
  [cache EXCEPT !.connected_clients = @ \cup {queue},
                !.client_activity_event = TRUE]

\* Variant of remove_client without the membership test: set.remove raises
\* KeyError for a queue that is not in the set.
remove_client_unguarded(cache, queue) ==
  IF queue \in cache.connected_clients
    THEN [cache EXCEPT !.connected_clients = @ \ {queue}]
    ELSE [exception |-> "KeyError"]

\* Variant of remove_client that signals client activity, as add_client does.
remove_client_with_event(cache, queue) ==
  IF queue \in cache.connected_clients
    THEN [cache EXCEPT !.connected_clients = @ \ {queue},
                       !.client_activity_event = TRUE]
    ELSE cache

\* StatusCache.remove_client
remove_client(cache, queue) ==
  IF queue \in cache.connected_clients
    THEN [cache EXCEPT !.connected_clients = @ \ {queue}]
    ELSE cache

\* list(self.connected_clients): the point-in-time copy broadcast iterates
RECURSIVE list(_)
list(S) ==
  IF S = {} THEN <<>>
  ELSE LET x == CHOOSE y \in S : \A z \in S : y <= z
       IN <<x>> \o list(S \ {x})

\* Variant of the broadcast loop without the try/except around the put: the
\* first put that raises ends the loop.
RECURSIVE broadcast_loop_aborting(_, _, _, _)
broadcast_loop_aborting(queues, todo, message, raises) ==
  IF todo = <<>> THEN queues
  ELSE LET q == Head(todo)
       IN IF q \in raises
            THEN queues
            ELSE broadcast_loop_aborting(
                   [queues EXCEPT ![q] = Append(@, message)],
                   Tail(todo), message, raises)

\* asyncio.Queue.put on a queue: append; `raises` is the environment's choice
\* of the puts that raise (none for asyncio.Queue()).
RECURSIVE broadcast_loop(_, _, _, _)
broadcast_loop(queues, todo, message, raises) ==
  IF todo = <<>> THEN queues
  ELSE LET q == Head(todo)
           after == IF q \in raises
                      THEN queues   \* except Exception: logged, loop goes on
                      ELSE [queues EXCEPT ![q] = Append(@, message)]
       IN broadcast_loop(after, Tail(todo), message, raises)

\* Variant of broadcast that returns after the first client of the copy.
broadcast_first_client_only(cache, queues, message, raises) ==
  LET clients == list(cache.connected_clients)
  IN broadcast_loop(queues,
                    IF clients = <<>> THEN <<>> ELSE <<Head(clients)>>,
                    message, raises)

\* StatusCache.broadcast
broadcast(cache, queues, message, raises) ==
  broadcast_loop(queues, list(cache.connected_clients), message, raises)

\* ---------------------------------------------------------------- collector

\* Aliases a configuration may name.  settings.jump_host is tested for
\* truth (api.py:70): None and "" both mean "no jump host".
NoJumpHost == ""
JumpAlias == "jump"
MemberNames == <<"m1", "m2", "m3", "m4">>
MemberAliases == {MemberNames[i] : i \in 1..MaxMembers}
Aliases == {JumpAlias} \cup MemberAliases

\* config.MonitoredHostConfig
MonitoredHostConfig(alias, check_gpu) == [alias |-> alias, check_gpu |-> check_gpu]

\* a message the program builds (an f-string, a join): its pieces in order
Message(p) == [pieces |-> p]

\* models.HostStatus
HostStatus(hostname, status, error_message, metrics) ==
  [hostname |-> hostname, status |-> status, error_message |-> error_message,
   metrics |-> metrics, gpus |-> None]

\* an exception object
Exception(text) == [exception |-> text]
IsException(x) == "exception" \in DOMAIN x
IsHostStatus(x) == "hostname" \in DOMAIN x

\* What the remote executor's outcomes make of one host check:
\*   up         probe rc = 0, every sub-check clean
\*   up_errors  probe rc = 0, a sub-check recorded a diagnostic
\*   up_task_error  probe rc = 0, a gathered sub-check task raised
\*   down       probe rc # 0 (host down, ssh error, timeout)
\*   raise      the executor call of the probe raised
HostOutcomes == {"up", "up_errors", "up_task_error", "down", "raise"}
\* the outcomes with a probe that returned rc = 0
ReachableOutcomes == {"up", "up_errors", "up_task_error"}

\* metrics.get_full_host_status, by the outcome of its executor calls
get_full_host_status(host_config, outcome) ==
  CASE outcome = "raise" -> Exception("ssh")
    [] outcome = "down" ->
         HostStatus(host_config.alias, "down",
                    Message(<<"Host alias ", host_config.alias,
                              " unreachable">>), None)
    [] outcome = "up_errors" ->
         HostStatus(host_config.alias, "up", Message(<<"Metrics Error: ">>),
                    None)
    [] outcome = "up_task_error" ->
         HostStatus(host_config.alias, "up",
                    Message(<<"Metrics Task Error: ", "ssh">>), None)
    [] OTHER -> HostStatus(host_config.alias, "up", None,
                           [cpu_usage_percent |-> 1])

\* Variant of check_host_concurrently whose except clause returns no
\* status.
check_host_concurrently_without_status(host_config, outcome) ==
  LET status == get_full_host_status(host_config, outcome)
  IN IF IsException(status) THEN None ELSE status

\* api.check_host_concurrently
check_host_concurrently(host_config, outcome) ==
  LET status == get_full_host_status(host_config, outcome)
  IN IF IsException(status)
       THEN HostStatus(host_config.alias, "error",
                       Message(<<"Task execution failed: ",
                                 status.exception>>), None)
       ELSE status

\* the dummy MonitoredHostConfig of the jump host check, api.py:74 / 237
jump_host_config(jump_host) == MonitoredHostConfig(jump_host, FALSE)

\* Variant of the loop that stops at the first status "error".
RECURSIVE append_host_statuses_until_error(_)
append_host_statuses_until_error(results) ==
  IF results = <<>> THEN <<>>
  ELSE IF IsException(Head(results))
         THEN append_host_statuses_until_error(Tail(results))
       ELSE IF IsHostStatus(Head(results))
         THEN IF Head(results).status = "error"
                THEN <<Head(results)>>
                ELSE <<Head(results)>>
                       \o append_host_statuses_until_error(Tail(results))
       ELSE append_host_statuses_until_error(Tail(results))

\* the loop over the gathered results, api.py:92-98 / 261-268
RECURSIVE append_host_statuses(_)
append_host_statuses(results) ==
  IF results = <<>> THEN <<>>
  ELSE IF IsException(Head(results))
         THEN append_host_statuses(Tail(results))     \* logged, not appended
       ELSE IF IsHostStatus(Head(results))
         THEN <<Head(results)>> \o append_host_statuses(Tail(results))
       ELSE append_host_statuses(Tail(results))

\* Variant of skipped_statuses that gives the skipped members no message.
skipped_statuses_without_message(jump_host, monitored_hosts_config) ==
  [i \in 1..Len(monitored_hosts_config) |->
     HostStatus(monitored_hosts_config[i].alias, "skipped", None, None)]

\* the members marked skipped, api.py:104-108 / 274-278
skipped_statuses(jump_host, monitored_hosts_config) ==
  [i \in 1..Len(monitored_hosts_config) |->
     HostStatus(monitored_hosts_config[i].alias, "skipped",
                Message(<<jump_host, " down">>), None)]

\* Variant of the gate that skips the members only for status "down".
members_are_checked_unless_down(jhs) == jhs = None \/ jhs.status # "down"

\* the gating condition, api.py:82 / 245
members_are_checked(jhs) == jhs = None \/ jhs.status = "up"

\* models.ApiResponse(...).dict()
ApiResponse(jhs, mhs) ==
  [jump_host_status |-> jhs, monitored_hosts_status |-> mhs]

\* One whole collection (api.py:64-117 / 228-285) as a function of the
\* configuration and of the executor's outcomes.
FleetStatus(cfg, oc) ==
  LET jhs == IF cfg.jump_host # NoJumpHost
               THEN check_host_concurrently(jump_host_config(cfg.jump_host),
                                            oc[cfg.jump_host])
               ELSE None
      hosts == cfg.monitored_hosts
      results == [i \in 1..Len(hosts) |->
                    check_host_concurrently(hosts[i], oc[hosts[i].alias])]
  IN ApiResponse(jhs,
       IF members_are_checked(jhs)
         THEN append_host_statuses(results)
         ELSE skipped_statuses(cfg.jump_host, hosts))

\* -------------------------------------------------------------- scheduler

\* datetime.now().isoformat()
isoformat(t) == [isoformat |-> t]

\* Variant of publish that drops the clients whose put raised.
publish_dropping_failed(cache, queues, response, t, raises) ==
  LET updated == update_status(cache, response, isoformat(t))
      sse_message == WireMessage(updated.latest_status_data,
                                 updated.latest_status_timestamp)
  IN [cache |-> [updated EXCEPT !.connected_clients = @ \ raises],
      queues |-> broadcast(updated, queues, sse_message, raises)]

\* Variant of publish whose wire message carries the timestamp the cache
\* held before the update.
publish_with_stale_timestamp(cache, queues, response, t, raises) ==
  LET updated == update_status(cache, response, isoformat(t))
      sse_message == WireMessage(updated.latest_status_data,
                                 cache.latest_status_timestamp)
  IN [cache |-> updated,
      queues |-> broadcast(updated, queues, sse_message, raises)]

\* api.py:119-130: update the cache, build the wire message from the
\* cache's fields, broadcast it.  Returns the cache and the queues after.
publish(cache, queues, response, t, raises) ==
  LET updated == update_status(cache, response, isoformat(t))
      sse_message == WireMessage(updated.latest_status_data,
                                 updated.latest_status_timestamp)
  IN [cache |-> updated,
      queues |-> broadcast(updated, queues, sse_message, raises)]

\* Variant of the wait logic that always takes the long, interruptible wait.
wait_logic_always_long(cache, raises) ==
  LET cleared == [cache EXCEPT !.client_activity_event = FALSE]
  IN IF raises
       THEN [pc |-> "fallback_sleep", timeout |-> FallbackSleepSec,
             cache |-> cleared]
       ELSE [pc |-> "long_wait", timeout |-> refresh_interval_no_clients_sec,
             cache |-> cleared]

\* api.py:135-171: choose the interval, clear the event, start to wait.
\* `raises`: the wait logic raised something other than TimeoutError.
wait_logic(cache, raises) ==
  LET is_long_wait == cache.connected_clients = {}
      sleep_interval == IF is_long_wait
                          THEN refresh_interval_no_clients_sec
                          ELSE refresh_interval_clients_sec
      cleared == [cache EXCEPT !.client_activity_event = FALSE]
  IN IF raises
       THEN [pc |-> "fallback_sleep", timeout |-> FallbackSleepSec,
             cache |-> cleared]
       ELSE [pc |-> IF is_long_wait THEN "long_wait" ELSE "short_wait",
             timeout |-> sleep_interval, cache |-> cleared]

\* the puts an action added to each queue, tagged with their origin
NewPuts(before, after, via) ==
  [v \in Viewers |->
     [i \in 1..(Len(after[v]) - Len(before[v])) |->
        [message |-> after[v][Len(before[v]) + i], via |-> via]]]

WaitStates == {"long_wait", "short_wait", "fallback_sleep"}

\* The task resumes at the top of `while True` and runs to the first
\* executor await of the Collecting phase (api.py:62-75/90).
BeginCollecting ==
  /\ ~cancel_requested
  /\ clock < MaxCycles
  /\ sched_pc' = "collecting"
  /\ clock' = clock + 1
  /\ wait_timeout' = 0
  /\ timer_elapsed' = FALSE
  /\ wait_raised' = FALSE
  /\ reg_in_long_wait' = FALSE
  /\ UNCHANGED <<status_cache, client_queue, viewer_pc, received,
                 cancel_requested, life_pc, enqueued, reg_latest,
                 phase_failed, publishes, settings, collectVars, hostVars, parseVars>>

\* asyncio.create_task(periodic_status_fetch()) gets its first run
SchedStart ==
  /\ sched_pc = "start"
  /\ BeginCollecting

\* Variant of the short wait that client activity ends, like the long wait.
SchedShortWaitDone_on_activity ==
  /\ sched_pc = "short_wait"
  /\ timer_elapsed \/ status_cache.client_activity_event
  /\ BeginCollecting

\* asyncio.sleep(sleep_interval) returns, api.py:160
SchedShortWaitDone ==
  /\ sched_pc = "short_wait"
  /\ timer_elapsed
  /\ BeginCollecting

\* wait_for returns because client_activity_event is set, api.py:154-156
SchedLongWaitWake ==
  /\ sched_pc = "long_wait"
  /\ status_cache.client_activity_event
  /\ BeginCollecting

\* wait_for raises TimeoutError, caught at api.py:163
SchedLongWaitTimeout ==
  /\ sched_pc = "long_wait"
  /\ timer_elapsed
  /\ BeginCollecting

\* asyncio.sleep(60) returns, api.py:171
SchedFallbackDone ==
  /\ sched_pc = "fallback_sleep"
  /\ timer_elapsed
  /\ BeginCollecting

\* the interval of the pending sleep / wait_for runs out
TimerElapse ==
  /\ sched_pc \in WaitStates
  /\ ~timer_elapsed
  /\ timer_elapsed' = TRUE
  /\ UNCHANGED <<status_cache, client_queue, viewer_pc, received, sched_pc,
                 wait_timeout, clock, cancel_requested, life_pc, enqueued,
                 reg_latest, reg_in_long_wait, phase_failed, wait_raised,
                 publishes, settings, collectVars, hostVars, parseVars>>

\* The host checks return: the phase builds the response, publishes it and
\* enters the wait, all in one run of the task (api.py:92-160).
SchedCollected(response, put_raises, wait_raises) ==
  /\ sched_pc = "collecting"
  /\ ~cancel_requested
  /\ \E p \in {publish(status_cache, client_queue, response, clock,
                        put_raises)} :
       \E w \in {wait_logic(p.cache, wait_raises)} :
        /\ status_cache' = w.cache
        /\ client_queue' = p.queues
        /\ sched_pc' = w.pc
        /\ wait_timeout' = w.timeout
        /\ enqueued' = [v \in Viewers |->
              enqueued[v] \o NewPuts(client_queue, p.queues, "broadcast")[v]]
        /\ publishes' = Append(publishes,
              [data |-> response, timestamp |-> isoformat(clock),
               copy |-> status_cache.connected_clients,
               raised |-> put_raises])
  /\ phase_failed' = FALSE
  /\ wait_raised' = wait_raises
  /\ UNCHANGED <<viewer_pc, received, timer_elapsed, clock, cancel_requested,
                 life_pc, reg_latest, reg_in_long_wait, settings,
                 collectVars, hostVars, parseVars>>

\* Variant of the except clause of the Collecting phase that sleeps the
\* fallback delay instead of going on to the wait logic.
SchedCollectFailed_fallback(wait_raises) ==
  /\ sched_pc = "collecting"
  /\ ~cancel_requested
  /\ sched_pc' = "fallback_sleep"
  /\ wait_timeout' = FallbackSleepSec
  /\ phase_failed' = TRUE
  /\ wait_raised' = wait_raises
  /\ UNCHANGED <<status_cache, client_queue, viewer_pc, received,
                 timer_elapsed, clock, cancel_requested, life_pc, enqueued,
                 reg_latest, reg_in_long_wait, publishes, settings,
                 collectVars, hostVars, parseVars>>

\* Variant without the except clause: the exception ends the task.
SchedCollectFailed_uncaught(wait_raises) ==
  /\ sched_pc = "collecting"
  /\ ~cancel_requested
  /\ sched_pc' = "crashed"
  /\ phase_failed' = TRUE
  /\ wait_raised' = FALSE
  /\ UNCHANGED <<status_cache, client_queue, viewer_pc, received,
                 wait_timeout, timer_elapsed, clock, cancel_requested,
                 life_pc, enqueued, reg_latest, reg_in_long_wait, publishes,
                 settings, collectVars, hostVars, parseVars>>

\* Variant of SchedCollectFailed in which the phase raises after
\* update_status ran: the cache holds a snapshot that was never broadcast.
SchedCollectFailed_after_update(wait_raises) ==
  /\ sched_pc = "collecting"
  /\ ~cancel_requested
  /\ LET w == wait_logic(update_status(status_cache, None, isoformat(clock)),
                         wait_raises)
     IN /\ status_cache' = w.cache
        /\ sched_pc' = w.pc
        /\ wait_timeout' = w.timeout
  /\ phase_failed' = TRUE
  /\ wait_raised' = wait_raises
  /\ UNCHANGED <<client_queue, viewer_pc, received, timer_elapsed, clock,
                 cancel_requested, life_pc, enqueued, reg_latest,
                 reg_in_long_wait, publishes, settings, collectVars, hostVars, parseVars>>

\* The Collecting phase raises an unexpected exception before the cache is
\* updated; api.py:132-133 logs it and the task goes on to the wait logic.
SchedCollectFailed(wait_raises) ==
  /\ sched_pc = "collecting"
  /\ ~cancel_requested
  /\ LET w == wait_logic(status_cache, wait_raises)
     IN /\ status_cache' = w.cache
        /\ sched_pc' = w.pc
        /\ wait_timeout' = w.timeout
  /\ phase_failed' = TRUE
  /\ wait_raised' = wait_raises
  /\ UNCHANGED <<client_queue, viewer_pc, received, timer_elapsed, clock,
                 cancel_requested, life_pc, enqueued, reg_latest,
                 reg_in_long_wait, publishes, settings, collectVars, hostVars, parseVars>>

\* CancelledError is thrown into the task at the await it is suspended on;
\* no `except Exception` catches it and the task ends.
SchedCancelled ==
  /\ cancel_requested
  /\ sched_pc # "cancelled"
  /\ sched_pc' = "cancelled"
  /\ UNCHANGED <<status_cache, client_queue, viewer_pc, received,
                 wait_timeout, timer_elapsed, clock, cancel_requested,
                 life_pc, enqueued, reg_latest, reg_in_long_wait,
                 phase_failed, wait_raised, publishes, settings, collectVars, hostVars, parseVars>>

\* ---------------------------------------------------------------- lifespan

\* Variant of the shutdown that returns without cancelling or awaiting.
lifespan_shutdown_without_cancel(task_done) ==
  [cancel |-> FALSE, pc |-> "stopped"]

\* main.lifespan, the shutdown half (main.py:36-51): cancel the task if it
\* is not done, then await it.
lifespan_shutdown(task_done) ==
  IF ~task_done
    THEN [cancel |-> TRUE, pc |-> "awaiting_task"]
    ELSE [cancel |-> FALSE, pc |-> "stopped"]

LifespanShutdown ==
  /\ life_pc = "running"
  /\ LET s == lifespan_shutdown(sched_pc = "cancelled")
     IN /\ cancel_requested' = (cancel_requested \/ s.cancel)
        /\ life_pc' = s.pc
  /\ UNCHANGED <<status_cache, client_queue, viewer_pc, received, sched_pc,
                 wait_timeout, timer_elapsed, clock, enqueued, reg_latest,
                 reg_in_long_wait, phase_failed, wait_raised, publishes,
                 settings, collectVars, hostVars, parseVars>>

\* `await api.broadcast_task` returns (CancelledError, main.py:44-46)
LifespanTaskExited ==
  /\ life_pc = "awaiting_task"
  /\ sched_pc = "cancelled"
  /\ life_pc' = "stopped"
  /\ UNCHANGED <<status_cache, client_queue, viewer_pc, received, sched_pc,
                 wait_timeout, timer_elapsed, clock, cancel_requested,
                 enqueued, reg_latest, reg_in_long_wait, phase_failed,
                 wait_raised, publishes, settings, collectVars, hostVars, parseVars>>

\* ----------------------------------------------------------------- viewers

\* Variant of get_status_sse that registers the queue and puts nothing.
get_status_sse_without_initial(cache, queues, v) ==
  [cache |-> add_client(cache, v),
   queues |-> queues,
   initial_message |-> None]

\* api.get_status_sse up to its return (api.py:177-184): register the new
\* queue, then put the cached message if there is one.
get_status_sse(cache, queues, v) ==
  LET added == add_client(cache, v)
      initial_message == get_latest_status_message(added)
  IN [cache |-> added,
      queues |-> IF initial_message # None
                   THEN [queues EXCEPT ![v] = Append(@, initial_message)]
                   ELSE queues,
      initial_message |-> initial_message]

\* A viewer connects: the handler runs to its return; the generator
\* event_publisher() is created but not started.  Connections are numbered
\* in the order they arrive.
Connect(v) ==
  /\ viewer_pc[v] = "idle"
  /\ \A u \in Viewers : u < v => viewer_pc[u] # "idle"
  /\ life_pc = "running"
  /\ LET h == get_status_sse(status_cache, client_queue, v)
     IN /\ status_cache' = h.cache
        /\ client_queue' = h.queues
        /\ reg_latest' = [reg_latest EXCEPT ![v] =
              IF status_cache.latest_status_data # None
                THEN WireMessage(status_cache.latest_status_data,
                                 status_cache.latest_status_timestamp)
                ELSE None]
        /\ enqueued' = [w \in Viewers |->
              enqueued[w] \o NewPuts(client_queue, h.queues, "initial")[w]]
  /\ viewer_pc' = [viewer_pc EXCEPT ![v] = "registered"]
  /\ reg_in_long_wait' = (reg_in_long_wait \/ sched_pc = "long_wait")
  /\ UNCHANGED <<received, sched_pc, wait_timeout, timer_elapsed, clock,
                 cancel_requested, life_pc, phase_failed, wait_raised,
                 publishes, settings, collectVars, hostVars, parseVars>>

\* EventSourceResponse starts to iterate event_publisher(): the generator
\* enters its try block and waits on client_queue.get() (api.py:188-191).
StartStream(v) ==
  /\ viewer_pc[v] = "registered"
  /\ viewer_pc' = [viewer_pc EXCEPT ![v] = "streaming"]
  /\ UNCHANGED <<status_cache, client_queue, received, sched_pc,
                 wait_timeout, timer_elapsed, clock, cancel_requested,
                 life_pc, enqueued, reg_latest, reg_in_long_wait,
                 phase_failed, wait_raised, publishes, settings, collectVars, hostVars, parseVars>>

\* Variant of the generator's loop that takes the newest message of the
\* queue (a LIFO queue).
Deliver_newest_first(v) ==
  /\ viewer_pc[v] = "streaming"
  /\ client_queue[v] # <<>>
  /\ received' = [received EXCEPT ![v] =
                    Append(@, client_queue[v][Len(client_queue[v])])]
  /\ client_queue' = [client_queue EXCEPT ![v] =
                        SubSeq(@, 1, Len(@) - 1)]
  /\ UNCHANGED <<status_cache, viewer_pc, sched_pc, wait_timeout,
                 timer_elapsed, clock, cancel_requested, life_pc, enqueued,
                 reg_latest, reg_in_long_wait, phase_failed, wait_raised,
                 publishes, settings, collectVars, hostVars, parseVars>>

\* client_queue.get() returns and the message is yielded (api.py:191-193)
Deliver(v) ==
  /\ viewer_pc[v] = "streaming"
  /\ client_queue[v] # <<>>
  /\ received' = [received EXCEPT ![v] = Append(@, Head(client_queue[v]))]
  /\ client_queue' = [client_queue EXCEPT ![v] = Tail(@)]
  /\ UNCHANGED <<status_cache, viewer_pc, sched_pc, wait_timeout,
                 timer_elapsed, clock, cancel_requested, life_pc, enqueued,
                 reg_latest, reg_in_long_wait, phase_failed, wait_raised,
                 publishes, settings, collectVars, hostVars, parseVars>>

\* The viewer disconnects while the generator runs: CancelledError (or
\* GeneratorExit at the yield) ends it and `finally` runs (api.py:195-202).
Disconnect(v) ==
  /\ viewer_pc[v] = "streaming"
  /\ status_cache' = remove_client(status_cache, v)
  /\ viewer_pc' = [viewer_pc EXCEPT ![v] = "closed"]
  /\ UNCHANGED <<client_queue, received, sched_pc, wait_timeout,
                 timer_elapsed, clock, cancel_requested, life_pc, enqueued,
                 reg_latest, reg_in_long_wait, phase_failed, wait_raised,
                 publishes, settings, collectVars, hostVars, parseVars>>

\* The viewer disconnects after get_status_sse returned and before the
\* response started to iterate the generator: a generator that was never
\* started runs none of its body when it is closed, `finally` included.
DisconnectBeforeStream(v) ==
  /\ viewer_pc[v] = "registered"
  /\ viewer_pc' = [viewer_pc EXCEPT ![v] = "closed"]
  /\ UNCHANGED <<status_cache, client_queue, received, sched_pc,
                 wait_timeout, timer_elapsed, clock, cancel_requested,
                 life_pc, enqueued, reg_latest, reg_in_long_wait,
                 phase_failed, wait_raised, publishes, settings, collectVars, hostVars, parseVars>>

\* ------------------------------------------------- host check (metrics.py)

\* metrics.py:9-12
CHECK_REACHABILITY_CMD == "exit 0"
CHECK_NVIDIA_SMI_CMD == "command -v nvidia-smi"
TOP_CMD == "top -bn1"
NVIDIA_SMI_GPU_QUERY_CMD == "nvidia-smi --query-gpu"

GpuIndexes == 0..(MaxGpus - 1)

\* metrics.py:125-128: the process query of GPU `index`
ProcessQueryNames ==
  <<"nvidia-smi -i 0 --query-compute-apps",
    "nvidia-smi -i 1 --query-compute-apps",
    "nvidia-smi -i 2 --query-compute-apps",
    "nvidia-smi -i 3 --query-compute-apps">>
specific_process_cmd(index) == ProcessQueryNames[index + 1]
ProcessCmds == {specific_process_cmd(i) : i \in GpuIndexes}

\* Text the program reads is Lines(l), l a sequence of lines, a line a
\* sequence of fields; a field is a number or some other text.  The empty
\* string is Lines(<<>>).  A message the program builds is Message(p), p the
\* sequence of its pieces.  A list of GpuInfo is GpuList(l).
Num(n) == [num |-> n]
Text(s) == [text |-> s]
IsNum(field) == "num" \in DOMAIN field
Lines(l) == [lines |-> l]
GpuList(l) == [list |-> l]

\* what run_ssh_command_async returns (ssh_utils.py:30-35): rc is the exit
\* status, or -1..-5 for a call that could not be made or timed out.  stderr
\* is "" where the code has None or "": the callers only test its truth.
SshResult(rc, stdout, stderr) == [rc |-> rc, stdout |-> stdout,
                                   stderr |-> stderr]

\* f"{stderr or 'N/A'}"
or_NA(stderr) == IF stderr = "" THEN "N/A" ELSE stderr

\* sep.join(messages)
RECURSIVE join(_, _)
join(sep, messages) ==
  IF messages = <<>> THEN Message(<<>>)
  ELSE IF Len(messages) = 1 THEN messages[1]
  ELSE Message(messages[1].pieces \o <<sep>>
                 \o join(sep, Tail(messages)).pieces)

\* `needle in message`
contains(message, needle) ==
  \E i \in 1..Len(message.pieces) : message.pieces[i] = needle

\* f"{prefix}{message}"
prefixed(prefix, message) == Message(<<prefix>> \o message.pieces)

\* metrics.check_host_reachability, from the executor's result on
check_host_reachability(host_alias, result) ==
  IF result.rc = 0
    THEN [reachable |-> TRUE, error |-> None]
    ELSE [reachable |-> FALSE,
          error |-> Message(<<"Host alias ", host_alias,
                              " unreachable (SSH rc=", ToString(result.rc),
                              "). Stderr: ", or_NA(result.stderr)>>)]

\* metrics.check_nvidia_smi, from the executor's result on
check_nvidia_smi(host_alias, result) ==
  IF result.rc = 0 /\ result.stdout # None /\ result.stdout # Lines(<<>>)
    THEN [found |-> TRUE, error |-> None]
    ELSE LET error_msg ==
               Message(<<"nvidia-smi not found", " or check failed on ",
                         host_alias, " (rc=", ToString(result.rc),
                         "). Stderr: ", or_NA(result.stderr)>>)
         IN [found |-> FALSE,
             error |-> IF result.rc # 1 THEN error_msg ELSE None]

\* The lines of `top -bn1` the parsers look for.  Numbers are in tenths.
CpuLine(idle) == <<Text("%Cpu(s):"), Num(idle), Text("id")>>
MemLine(total, used) ==
  <<Text("MiB Mem :"), Num(total), Text("total"), Num(used), Text("used")>>
IsCpuLine(line) ==
  /\ Len(line) = 3
  /\ line[1] = Text("%Cpu(s):")
  /\ IsNum(line[2])
  /\ line[3] = Text("id")
IsMemLine(line) ==
  /\ Len(line) = 5
  /\ line[1] = Text("MiB Mem :")
  /\ IsNum(line[2]) /\ line[3] = Text("total")
  /\ IsNum(line[4]) /\ line[5] = Text("used")

\* re.search: the number of the first line that matches, 0 for no match
FirstLine(hits) ==
  IF hits = {} THEN 0 ELSE CHOOSE i \in hits : \A j \in hits : i <= j

\* parsers.parse_cpu_usage: 100 - idle, or None
parse_cpu_usage(top_output) ==
  LET match == FirstLine({i \in 1..Len(top_output.lines) :
                            IsCpuLine(top_output.lines[i])})
  IN IF match = 0 THEN None
     ELSE Num(1000 - top_output.lines[match][2].num)

\* parsers.parse_memory_usage_from_top
parse_memory_usage_from_top(top_output) ==
  LET match == FirstLine({i \in 1..Len(top_output.lines) :
                            IsMemLine(top_output.lines[i])})
      total_mib == top_output.lines[match][2].num
      used_mib == top_output.lines[match][4].num
  IN IF match = 0 THEN None
     ELSE [ram_total_mb |-> total_mib \div 10,
           ram_used_mb |-> used_mib \div 10,
           ram_usage_percent |->
             IF total_mib > 0 THEN (used_mib * 1000) \div total_mib ELSE 0]

\* Variant of parse_host_metrics that gives up when either parse fails.
parse_host_metrics_requiring_both(top_output) ==
  IF top_output = None \/ top_output = Lines(<<>>) THEN None
  ELSE LET cpu_usage == parse_cpu_usage(top_output)
           mem_info == parse_memory_usage_from_top(top_output)
       IN IF cpu_usage = None \/ mem_info = None THEN None
          ELSE [cpu_usage_percent |-> cpu_usage.num,
                ram_total_mb |-> mem_info.ram_total_mb,
                ram_used_mb |-> mem_info.ram_used_mb,
                ram_usage_percent |-> mem_info.ram_usage_percent]

\* parsers.parse_host_metrics; a HostMetrics holds the recovered fields only
parse_host_metrics(top_output) ==
  IF top_output = None \/ top_output = Lines(<<>>) THEN None
  ELSE LET cpu_usage == parse_cpu_usage(top_output)
           mem_info == parse_memory_usage_from_top(top_output)
       IN IF cpu_usage = None /\ mem_info = None THEN None
          ELSE IF mem_info = None
            THEN [cpu_usage_percent |-> cpu_usage.num]
          ELSE IF cpu_usage = None THEN mem_info
          ELSE [cpu_usage_percent |-> cpu_usage.num,
                ram_total_mb |-> mem_info.ram_total_mb,
                ram_used_mb |-> mem_info.ram_used_mb,
                ram_usage_percent |-> mem_info.ram_usage_percent]

\* metrics.get_host_metrics, from the executor's result on
get_host_metrics(host_alias, result) ==
  LET top_output == IF result.rc = 0 THEN result.stdout ELSE None
      error_messages ==
        IF result.rc = 0 THEN <<>>
        ELSE <<Message(<<"Failed to get top output from ", host_alias,
                         " (rc=", ToString(result.rc), "). Stderr: ",
                         or_NA(result.stderr)>>)>>
  IN [metrics |-> parse_host_metrics(top_output),
      error |-> IF error_messages # <<>>
                  THEN join("; ", error_messages) ELSE None]

\* A numeral in nvidia-smi's output: Num(n) is the integer numeral of n,
\* Dec(t) the decimal numeral of t tenths.  int(value) accepts the first
\* only, float(value) both; anything else raises ValueError.
Dec(t) == [dec |-> t]
IsDec(field) == "dec" \in DOMAIN field
StringKeys == {"name", "process_name"}
FloatKeys == {"power.limit", "power.draw"}

\* parsers.py:104-111: what converting value under key raises, or None
conversion_error(key, value) ==
  IF key \in StringKeys THEN None
  ELSE IF key \in FloatKeys
    THEN IF IsNum(value) \/ IsDec(value) THEN None
         ELSE Exception("ValueError")
  ELSE IF IsNum(value) THEN None ELSE Exception("ValueError")

\* parsers.py:104-111: the converted value; a float is held in tenths
converted(key, value) ==
  IF key \in StringKeys THEN value
  ELSE IF key \in FloatKeys
    THEN IF IsNum(value) THEN value.num * 10 ELSE value.dec
  ELSE value.num

\* parsers.py:113: except (ValueError, KeyError, IndexError, TypeError)
CaughtErrors == {"ValueError", "KeyError", "IndexError", "TypeError"}

\* Variant of parse_csv_line that pairs keys and values as far as both go
\* instead of skipping a line whose number of values is not expected.
parse_csv_line_without_length_check(values, expected_keys) ==
  LET n == IF Len(values) < Len(expected_keys) THEN Len(values)
           ELSE Len(expected_keys)
      errors == {i \in 1..n :
                   conversion_error(expected_keys[i], values[i]) # None}
  IN IF errors # {} THEN None
     ELSE [key \in {expected_keys[i] : i \in 1..n} |->
             LET i == CHOOSE i \in 1..n : expected_keys[i] = key
             IN converted(key, values[i])]

\* parsers.parse_nvidia_smi_csv, one line: the item, None for a line the
\* loop skips (wrong number of values, or a conversion raising what the
\* except clause catches), or the exception that leaves the loop
parse_csv_line(values, expected_keys) ==
  IF Len(values) # Len(expected_keys) THEN None
  ELSE LET errors == {i \in 1..Len(values) :
                        conversion_error(expected_keys[i], values[i]) # None}
           first == CHOOSE i \in errors : \A j \in errors : i <= j
           raised == conversion_error(expected_keys[first], values[first])
       IN IF errors # {}
            THEN IF raised.exception \in CaughtErrors THEN None ELSE raised
          ELSE [key \in {expected_keys[i] : i \in 1..Len(expected_keys)} |->
                  LET i == CHOOSE i \in 1..Len(expected_keys) :
                             expected_keys[i] = key
                  IN converted(key, values[i])]

\* parsers.parse_nvidia_smi_csv: the items it returns
parse_nvidia_smi_csv(csv_output, expected_keys) ==
  LET parsed == [i \in 1..Len(csv_output.lines) |->
                   parse_csv_line(csv_output.lines[i], expected_keys)]
      kept(item) == "none" \notin DOMAIN item /\ ~IsException(item)
  IN SelectSeq(parsed, kept)

\* parsers.parse_nvidia_smi_csv: the exception that leaves it, or None
parse_nvidia_smi_csv_raises(csv_output, expected_keys) ==
  LET raising == {i \in 1..Len(csv_output.lines) :
                    IsException(parse_csv_line(csv_output.lines[i],
                                               expected_keys))}
      first == CHOOSE i \in raising : \A j \in raising : i <= j
  IN IF raising = {} THEN None
     ELSE parse_csv_line(csv_output.lines[first], expected_keys)

\* the expected_keys of the base listing (metrics.py:103-112,
\* parsers.py:128-137) and of a process listing (parsers.py:156)
GpuKeys == <<"index", "name", "utilization.gpu", "memory.used",
             "memory.total", "temperature.gpu", "power.limit", "power.draw">>
ProcessKeys == <<"pid", "process_name", "used_gpu_memory">>

\* models.GpuInfo(**gpu_data, processes=processes)
GpuInfo(gpu_data, processes) == gpu_data @@ [processes |-> processes]

\* dict.get(key)
get(dict, key) == IF key \in DOMAIN dict THEN dict[key] ELSE None

\* Variant of parse_gpu_info that leaves out a GPU whose process query
\* failed.
parse_gpu_info_skipping_failed(gpu_query_output, per_gpu_process_output) ==
  IF gpu_query_output = None \/ gpu_query_output = Lines(<<>>) THEN None
  ELSE
    LET gpu_list_data == parse_nvidia_smi_csv(gpu_query_output, GpuKeys)
        answered(gpu_data) ==
          get(per_gpu_process_output, gpu_data.index) # None
        gpus_kept == SelectSeq(gpu_list_data, answered)
        gpu_infos == [i \in 1..Len(gpus_kept) |->
                        GpuInfo(gpus_kept[i],
                                parse_nvidia_smi_csv(
                                  get(per_gpu_process_output,
                                      gpus_kept[i].index),
                                  ProcessKeys))]
    IN IF gpu_infos = <<>> THEN None ELSE GpuList(gpu_infos)

\* parsers.parse_gpu_info; per_gpu_process_output is a function from the
\* indices queried to the process listing, or None for a failed query
parse_gpu_info(gpu_query_output, per_gpu_process_output) ==
  IF gpu_query_output = None \/ gpu_query_output = Lines(<<>>) THEN None
  ELSE
    LET gpu_list_data == parse_nvidia_smi_csv(gpu_query_output, GpuKeys)
        processes_of(gpu_data) ==
          LET specific_process_output ==
                get(per_gpu_process_output, gpu_data.index)
          IN IF DOMAIN per_gpu_process_output = {}
                  \/ specific_process_output = None
               THEN <<>>
               ELSE parse_nvidia_smi_csv(specific_process_output,
                                         ProcessKeys)
        gpu_infos == [i \in 1..Len(gpu_list_data) |->
                        GpuInfo(gpu_list_data[i],
                                processes_of(gpu_list_data[i]))]
    IN IF gpu_infos = <<>> THEN None ELSE GpuList(gpu_infos)

\* metrics.py:116: the indices of the listing, in its order
listed_indices(gpu_query_output) ==
  LET gpu_list_for_indices == parse_nvidia_smi_csv(gpu_query_output, GpuKeys)
  IN [i \in 1..Len(gpu_list_for_indices) |-> gpu_list_for_indices[i].index]

\* Variant of process_outcome without the test for the "no processes"
\* notice of metrics.py:152-155: every non-zero exit is a failure.
process_outcome_without_notice(host_alias, index, result) ==
  IF IsException(result)
    THEN [output |-> None,
          error |-> Message(<<"Exception fetching process info for GPU ",
                              ToString(index), " on ", host_alias, ": ",
                              result.exception>>)]
  ELSE IF result.rc = 0
    THEN [output |-> result.stdout, error |-> None]
  ELSE [output |-> None,
        error |-> Message(<<"Failed to get nvidia-smi process query for GPU ",
                            ToString(index), " on ", host_alias, " (rc=",
                            ToString(result.rc), "). Stderr: ",
                            or_NA(result.stderr)>>)]

\* metrics.py:141-163: what one process query leaves in
\* per_gpu_process_output[index] and in error_messages
process_outcome(host_alias, index, result) ==
  IF IsException(result)
    THEN [output |-> None,
          error |-> Message(<<"Exception fetching process info for GPU ",
                              ToString(index), " on ", host_alias, ": ",
                              result.exception>>)]
  ELSE IF result.rc = 0
    THEN [output |-> result.stdout, error |-> None]
  ELSE IF result.stderr = "No running processes found"
    THEN [output |-> Lines(<<>>), error |-> None]
  ELSE [output |-> None,
        error |-> Message(<<"Failed to get nvidia-smi process query for GPU ",
                            ToString(index), " on ", host_alias, " (rc=",
                            ToString(result.rc), "). Stderr: ",
                            or_NA(result.stderr)>>)]

\* metrics.py:138-181: what get_gpu_info returns once the process queries
\* are gathered; process_results[i] is the result for gpu_indices[i].  With
\* no index listed the loop is skipped and the dict stays empty.
gpu_info_result(host_alias, gpu_query_output, indices, process_results) ==
  LET outcomes == [i \in 1..Len(indices) |->
                     process_outcome(host_alias, indices[i],
                                     process_results[i])]
      per_gpu_process_output ==
        [index \in {indices[i] : i \in 1..Len(indices)} |->
           outcomes[CHOOSE i \in 1..Len(indices) : indices[i] = index].output]
      failed(outcome) == outcome.error # None
      failures == SelectSeq(outcomes, failed)
      error_messages == [i \in 1..Len(failures) |-> failures[i].error]
  IN [gpu_info |-> parse_gpu_info(gpu_query_output, per_gpu_process_output),
      error |-> IF error_messages # <<>>
                  THEN join("; ", error_messages) ELSE None]

\* metrics.py:93-98: the base listing could not be fetched
gpu_query_failed(host_alias, result) ==
  [gpu_info |-> None,
   error |-> join("; ",
     <<Message(<<"Failed to get nvidia-smi GPU query from ", host_alias,
                 " (rc=", ToString(result.rc), "). Stderr: ",
                 or_NA(result.stderr)>>)>>)]

\* metrics.py:213-251: get_full_host_status once its tasks are gathered.
\* results_0 and results_1 are what the metrics task and the GPU task
\* returned or raised; results_1 is None when no GPU task was created.
host_status_from_results(host_config, results_0, results_1) ==
  LET metrics_errors ==
        IF IsException(results_0)
          THEN <<Message(<<"Metrics Task Error: ", results_0.exception>>)>>
        ELSE IF results_0.error # None
          THEN <<prefixed("Metrics Error: ", results_0.error)>>
        ELSE <<>>
      metrics ==
        IF IsException(results_0) THEN None ELSE results_0.metrics
      gpu_errors ==
        IF ~host_config.check_gpu \/ results_1 = None THEN <<>>
        ELSE IF IsException(results_1)
          THEN <<Message(<<"GPU Task Error: ", results_1.exception>>)>>
        ELSE IF results_1.error # None
                /\ ~contains(results_1.error, "nvidia-smi not found")
          THEN <<prefixed("GPU Error: ", results_1.error)>>
        ELSE <<>>
      gpus ==
        IF ~host_config.check_gpu \/ results_1 = None
             \/ IsException(results_1)
          THEN None ELSE results_1.gpu_info
      all_errors == metrics_errors \o gpu_errors
  IN [HostStatus(host_config.alias, "up",
                 IF all_errors # <<>> THEN join("; ", all_errors) ELSE None,
                 metrics)
      EXCEPT !.gpus = gpus]

\* what the remote side can answer.  rc < 0 is run_ssh_command_async's own
\* failure (ssh_utils.py:129-137), with stdout None.
TimedOut == SshResult(-4, None, "SSH command or connection timed out")
\* run_ssh_command_async raises what its own handlers do not catch: an error
\* in the finally block that closes the connections (ssh_utils.py:138-147)
Raised == Exception("connection lost")
ReachabilityResults ==
  {SshResult(0, Lines(<<>>), ""), SshResult(1, Lines(<<>>), ""),
   SshResult(-1, None, "SSH Error"), TimedOut, Raised}
UnparseableLine == <<Text("top: unknown option")>>
TopResults ==
  {SshResult(0, Lines(<<CpuLine(900), MemLine(160000, 40000)>>), ""),
   SshResult(0, Lines(<<CpuLine(900)>>), ""),
   SshResult(0, Lines(<<UnparseableLine>>), ""),
   SshResult(0, Lines(<<>>), ""),
   SshResult(1, Lines(<<>>), "top: failed"),
   TimedOut, Raised}
SmiResults ==
  {SshResult(0, Lines(<< <<Text("/usr/bin/nvidia-smi")>> >>), ""),
   SshResult(0, Lines(<<>>), ""),
   SshResult(1, Lines(<<>>), ""),
   TimedOut, Raised}
GpuLine(index) ==
  <<Num(index), Text("GPU"), Num(0), Num(0), Num(0), Num(0), Num(0), Num(0)>>
MalformedLine == <<Text("[N/A]"), Text("GPU")>>
ListingLines == {GpuLine(i) : i \in GpuIndexes} \cup {MalformedLine}
\* a listing is what the tool prints: nothing keeps an index from
\* occurring on two lines
Listings == UNION {[1..n -> ListingLines] : n \in 0..MaxGpus}
QueryResults ==
  {SshResult(0, Lines(l), "") : l \in Listings}
    \cup {SshResult(9, Lines(<<>>), "NVIDIA-SMI has failed"), TimedOut,
          Raised}
ProcessLine == <<Num(4242), Text("python"), Num(1024)>>
ProcessResults ==
  {SshResult(0, Lines(<<ProcessLine>>), ""),
   SshResult(0, Lines(<<>>), ""),
   SshResult(1, Lines(<<>>), "No running processes found"),
   SshResult(1, Lines(<<>>), "Unable to determine the device handle"),
   Raised}

HostIdle ==
  /\ host_pc = "idle"
  /\ ssh_log = <<>>
  /\ ssh_results = <<>>
  /\ metrics_pc = "none"
  /\ metrics_result = None
  /\ gpu_pc = "none"
  /\ gpu_indices = <<>>
  /\ gpu_result = None
  /\ host_status = None

\* run_ssh_command_async is entered for each of cmds, in order
Issue(cmds) ==
  /\ ssh_log' = ssh_log \o cmds
  /\ ssh_results' = ssh_results \o [i \in 1..Len(cmds) |-> None]

\* the call of ssh_log that ran cmd
CallOf(cmd) == CHOOSE k \in 1..Len(ssh_log) : ssh_log[k] = cmd

\* call k returns result, and cmds are issued by the code that resumes
ReturnAndIssue(k, result, cmds) ==
  /\ ssh_log' = ssh_log \o cmds
  /\ ssh_results' = [ssh_results EXCEPT ![k] = result]
                      \o [i \in 1..Len(cmds) |-> None]

HubUntouched ==
  UNCHANGED <<hubVars, settings, collectVars, checked_config, parseVars>>

\* metrics.py:184-190: get_full_host_status is entered and awaits the probe
HostCheckStart ==
  /\ host_pc = "idle"
  /\ host_pc' = "probing"
  /\ host_status' = HostStatus(checked_config.alias, "checking", None, None)
  /\ Issue(<<CHECK_REACHABILITY_CMD>>)
  /\ UNCHANGED <<metrics_pc, metrics_result, gpu_pc, gpu_indices, gpu_result>>
  /\ HubUntouched

\* Variant of sub_check_cmds that creates the GPU task for every host.
sub_check_cmds_for_every_host(host_config) ==
  <<TOP_CMD, CHECK_NVIDIA_SMI_CMD>>

\* the commands the tasks created at metrics.py:203-209 issue when first run
sub_check_cmds(host_config) ==
  <<TOP_CMD>> \o (IF host_config.check_gpu THEN <<CHECK_NVIDIA_SMI_CMD>>
                  ELSE <<>>)

\* Variant of down_status that leaves the status field as it was created.
down_status_left_checking(host_config, reachability_error) ==
  HostStatus(host_config.alias, "checking",
             IF reachability_error # None
                  /\ reachability_error # Message(<<>>)
               THEN reachability_error
               ELSE Message(<<"Host alias ", host_config.alias,
                              " unreachable">>),
             None)

\* metrics.py:194-198: the status of a host whose probe failed
down_status(host_config, reachability_error) ==
  HostStatus(host_config.alias, "down",
             IF reachability_error # None
                  /\ reachability_error # Message(<<>>)
               THEN reachability_error
               ELSE Message(<<"Host alias ", host_config.alias,
                              " unreachable">>),
             None)

\* Variant of ReachabilityReturned without the return of metrics.py:198:
\* the sub-check tasks are created whatever the probe answered.
ReachabilityReturned_without_return ==
  /\ host_pc = "probing"
  /\ \E result \in ReachabilityResults :
       LET probe == check_host_reachability(checked_config.alias, result)
           k == CallOf(CHECK_REACHABILITY_CMD)
       IN /\ host_pc' = "gathering"
          /\ metrics_pc' = "top"
          /\ gpu_pc' = IF checked_config.check_gpu THEN "smi" ELSE "none"
          /\ ReturnAndIssue(k, result, sub_check_cmds(checked_config))
          /\ host_status' = IF IsException(result) THEN host_status
                            ELSE IF ~probe.reachable
                              THEN down_status(checked_config, probe.error)
                              ELSE [host_status EXCEPT !.status = "up"]
  /\ UNCHANGED <<metrics_result, gpu_indices, gpu_result>>
  /\ HubUntouched

\* metrics.py:190-211: the probe returns; down and return, or up and the
\* sub-check tasks are created and gathered.  A probe that raises makes
\* get_full_host_status raise: host_status is then the exception.
ReachabilityReturned ==
  /\ host_pc = "probing"
  /\ \E result \in ReachabilityResults :
       LET probe == check_host_reachability(checked_config.alias, result)
           k == CallOf(CHECK_REACHABILITY_CMD)
       IN IF IsException(result)
            THEN /\ host_pc' = "done"
                 /\ host_status' = result
                 /\ ReturnAndIssue(k, result, <<>>)
                 /\ UNCHANGED <<metrics_pc, gpu_pc>>
          ELSE IF ~probe.reachable
            THEN /\ host_pc' = "done"
                 /\ host_status' = down_status(checked_config, probe.error)
                 /\ ReturnAndIssue(k, result, <<>>)
                 /\ UNCHANGED <<metrics_pc, gpu_pc>>
            ELSE /\ host_pc' = "gathering"
                 /\ metrics_pc' = "top"
                 /\ gpu_pc' = IF checked_config.check_gpu THEN "smi"
                              ELSE "none"
                 /\ ReturnAndIssue(k, result, sub_check_cmds(checked_config))
                 /\ host_status' = [host_status EXCEPT !.status = "up"]
  /\ UNCHANGED <<metrics_result, gpu_indices, gpu_result>>
  /\ HubUntouched

\* metrics.py:44-68: the get_host_metrics task's command returns
TopReturned ==
  /\ metrics_pc = "top"
  /\ \E result \in TopResults :
       /\ ReturnAndIssue(CallOf(TOP_CMD), result, <<>>)
       /\ metrics_result' =
            IF IsException(result) THEN result
            ELSE get_host_metrics(checked_config.alias, result)
  /\ metrics_pc' = "done"
  /\ UNCHANGED <<host_pc, gpu_pc, gpu_indices, gpu_result, host_status>>
  /\ HubUntouched

\* Variant of SmiReturned without the return of metrics.py:80-83: the base
\* listing is asked for whatever the tool probe answered.
SmiReturned_without_return ==
  /\ gpu_pc = "smi"
  /\ \E result \in SmiResults :
       /\ gpu_pc' = "query"
       /\ ReturnAndIssue(CallOf(CHECK_NVIDIA_SMI_CMD), result,
                         <<NVIDIA_SMI_GPU_QUERY_CMD>>)
       /\ UNCHANGED gpu_result
  /\ UNCHANGED <<host_pc, metrics_pc, metrics_result, gpu_indices,
                 host_status>>
  /\ HubUntouched

\* metrics.py:75-90: the tool probe of the get_gpu_info task returns
SmiReturned ==
  /\ gpu_pc = "smi"
  /\ \E result \in SmiResults :
       LET smi == check_nvidia_smi(checked_config.alias, result)
           k == CallOf(CHECK_NVIDIA_SMI_CMD)
       IN IF IsException(result)
            THEN /\ gpu_result' = result
                 /\ gpu_pc' = "done"
                 /\ ReturnAndIssue(k, result, <<>>)
          ELSE IF ~smi.found
            THEN /\ gpu_result' = [gpu_info |-> None, error |-> smi.error]
                 /\ gpu_pc' = "done"
                 /\ ReturnAndIssue(k, result, <<>>)
            ELSE /\ gpu_pc' = "query"
                 /\ ReturnAndIssue(k, result, <<NVIDIA_SMI_GPU_QUERY_CMD>>)
                 /\ UNCHANGED gpu_result
  /\ UNCHANGED <<host_pc, metrics_pc, metrics_result, gpu_indices,
                 host_status>>
  /\ HubUntouched

\* metrics.py:90-136: the base listing returns; the process queries are
\* created, one per listed index
QueryReturned ==
  /\ gpu_pc = "query"
  /\ \E result \in QueryResults :
       LET k == CallOf(NVIDIA_SMI_GPU_QUERY_CMD)
       IN IF IsException(result)
            THEN /\ gpu_result' = result
                 /\ gpu_pc' = "done"
                 /\ ReturnAndIssue(k, result, <<>>)
                 /\ UNCHANGED gpu_indices
          ELSE IF result.rc # 0
            THEN /\ gpu_result' = gpu_query_failed(checked_config.alias,
                                                   result)
                 /\ gpu_pc' = "done"
                 /\ ReturnAndIssue(k, result, <<>>)
                 /\ UNCHANGED gpu_indices
          ELSE IF listed_indices(result.stdout) = <<>>
            THEN /\ gpu_result' = gpu_info_result(checked_config.alias,
                                                  result.stdout, <<>>, <<>>)
                 /\ gpu_pc' = "done"
                 /\ ReturnAndIssue(k, result, <<>>)
                 /\ gpu_indices' = <<>>
          ELSE /\ gpu_indices' = listed_indices(result.stdout)
               /\ gpu_pc' = "procs"
               /\ ReturnAndIssue(k, result,
                    [i \in 1..Len(listed_indices(result.stdout)) |->
                       specific_process_cmd(listed_indices(result.stdout)[i])])
               /\ UNCHANGED gpu_result
  /\ UNCHANGED <<host_pc, metrics_pc, metrics_result, host_status>>
  /\ HubUntouched

\* The process queries are the last calls issued, one per entry of
\* gpu_indices and in its order (metrics.py:124-133): the call of entry i.
ProcessCall(i) == Len(ssh_log) - Len(gpu_indices) + i

\* metrics.py:123-133: process_tasks, a dict keyed by index, as the entry
\* whose task it holds: a later task of the same index replaces the earlier,
\* which runs on without being gathered.
process_tasks(indices) ==
  [index \in {indices[i] : i \in 1..Len(indices)} |->
     CHOOSE i \in 1..Len(indices) :
       /\ indices[i] = index
       /\ \A j \in 1..Len(indices) : indices[j] = index => j <= i]

\* metrics.py:130-133: the process query of entry i of gpu_indices returns;
\* one that is not gathered may return after get_gpu_info is over
ProcReturned(i) ==
  /\ gpu_pc \in {"procs", "done"}
  /\ gpu_indices # <<>>
  /\ ssh_results[ProcessCall(i)] = None
  /\ \E result \in ProcessResults :
       ReturnAndIssue(ProcessCall(i), result, <<>>)
  /\ UNCHANGED <<host_pc, metrics_pc, metrics_result, gpu_pc, gpu_indices,
                 gpu_result, host_status>>
  /\ HubUntouched

\* Variant of ProcsGathered in which the loop reads the result of each
\* entry's index instead of process_results[i].
ProcsGathered_by_index ==
  /\ gpu_pc = "procs"
  /\ \A index \in DOMAIN process_tasks(gpu_indices) :
       ssh_results[ProcessCall(process_tasks(gpu_indices)[index])] # None
  /\ gpu_result' =
       gpu_info_result(checked_config.alias,
         ssh_results[CallOf(NVIDIA_SMI_GPU_QUERY_CMD)].stdout,
         gpu_indices,
         [i \in 1..Len(gpu_indices) |->
            ssh_results[ProcessCall(process_tasks(gpu_indices)[gpu_indices[i]])]])
  /\ gpu_pc' = "done"
  /\ UNCHANGED <<host_pc, ssh_log, ssh_results, metrics_pc, metrics_result,
                 gpu_indices, host_status>>
  /\ HubUntouched

\* metrics.py:136-181: the gathered process queries, those process_tasks
\* holds, have returned.  process_results has one result per key; the loop
\* reads process_results[i] for every entry of gpu_indices, so with an index
\* listed twice it runs past the end and get_gpu_info raises IndexError.
ProcsGathered ==
  /\ gpu_pc = "procs"
  /\ \A index \in DOMAIN process_tasks(gpu_indices) :
       ssh_results[ProcessCall(process_tasks(gpu_indices)[index])] # None
  /\ gpu_result' =
       IF Cardinality(DOMAIN process_tasks(gpu_indices)) < Len(gpu_indices)
         THEN Exception("list index out of range")
         ELSE gpu_info_result(checked_config.alias,
                ssh_results[CallOf(NVIDIA_SMI_GPU_QUERY_CMD)].stdout,
                gpu_indices,
                [i \in 1..Len(gpu_indices) |-> ssh_results[ProcessCall(i)]])
  /\ gpu_pc' = "done"
  /\ UNCHANGED <<host_pc, ssh_log, ssh_results, metrics_pc, metrics_result,
                 gpu_indices, host_status>>
  /\ HubUntouched

\* metrics.py:211-251: both tasks are done; the status is assembled.  The
\* status field is left as metrics.py:195-199 set it.
HostGathered ==
  /\ host_pc = "gathering"
  /\ metrics_pc = "done"
  /\ gpu_pc \in {"none", "done"}
  /\ host_status' =
       [host_status_from_results(checked_config, metrics_result, gpu_result)
          EXCEPT !.status = host_status.status]
  /\ host_pc' = "done"
  /\ UNCHANGED <<ssh_log, ssh_results, metrics_pc, metrics_result, gpu_pc,
                 gpu_indices, gpu_result>>
  /\ HubUntouched

\* api.py:212-220: what check_host_concurrently returns when
\* get_full_host_status returned or raised status
returned_status(host_config, status) ==
  IF IsException(status)
    THEN HostStatus(host_config.alias, "error",
                    Message(<<"Task execution failed: ", status.exception>>),
                    None)
    ELSE status

\* ------------------------------------------------------------ Spec (hub)

\* The configuration of Spec: a jump host and one member.
HubSettings ==
  [jump_host |-> JumpAlias,
   monitored_hosts |-> <<MonitoredHostConfig("m1", TRUE)>>]

\* The executor outcomes Spec follows.  The hub never looks into the data it
\* carries; Spec lets the jump host be up in odd phases and down in even
\* ones, so that consecutive snapshots differ in data as well as in time.
SummaryOutcome(t) ==
  [a \in Aliases |-> IF a = JumpAlias /\ t % 2 = 0 THEN "down" ELSE "up"]

Runs == {"periodic", "get_status"}

CollectIdle ==
  /\ run_pc = [r \in Runs |-> "idle"]
  /\ jump_host_status = [r \in Runs |-> None]
  /\ task_pc = [r \in Runs |-> <<>>]
  /\ task_result = [r \in Runs |-> <<>>]
  /\ completion = [r \in Runs |-> <<>>]
  /\ ssh_calls = [r \in Runs |-> {}]
  /\ response_data = [r \in Runs |-> None]

HubInit ==
  /\ status_cache = StatusCacheInit
  /\ client_queue = [v \in Viewers |-> <<>>]
  /\ viewer_pc = [v \in Viewers |-> "idle"]
  /\ received = [v \in Viewers |-> <<>>]
  /\ sched_pc = "start"
  /\ wait_timeout = 0
  /\ timer_elapsed = FALSE
  /\ clock = 0
  /\ cancel_requested = FALSE
  /\ life_pc = "running"
  /\ enqueued = [v \in Viewers |-> <<>>]
  /\ reg_latest = [v \in Viewers |-> None]
  /\ reg_in_long_wait = FALSE
  /\ phase_failed = FALSE
  /\ wait_raised = FALSE
  /\ publishes = <<>>

Init ==
  /\ HubInit
  /\ settings = HubSettings
  /\ executor = [a \in Aliases |-> "up"]
  /\ CollectIdle
  /\ checked_config = MonitoredHostConfig(MemberNames[1], TRUE)
  /\ HostIdle
  /\ ParseIdle

SchedulerWakes ==
  \/ SchedStart
  \/ SchedShortWaitDone
  \/ SchedLongWaitWake
  \/ SchedLongWaitTimeout
  \/ SchedFallbackDone

\* Once lifespan has returned the process is gone: nothing runs after.
ViewerNext ==
  /\ life_pc # "stopped"
  /\ \E v \in Viewers :
       \/ Connect(v)
       \/ StartStream(v)
       \/ Deliver(v)
       \/ Disconnect(v)
       \/ DisconnectBeforeStream(v)

EnvNext ==
  \/ TimerElapse
  \/ ViewerNext
  \/ LifespanShutdown
  \/ LifespanTaskExited

Next ==
  \/ SchedulerWakes
  \/ \E wr \in BOOLEAN,
        response \in {FleetStatus(settings, SummaryOutcome(clock))} :
       SchedCollected(response, {}, wr)
  \/ \E wr \in BOOLEAN : SchedCollectFailed(wr)
  \/ SchedCancelled
  \/ EnvNext

Spec == Init /\ [][Next]_vars

\* The event loop runs a task that can run, time passes, and every executor
\* call returns (ssh_utils bounds each call: connect_timeout=10, wait_for 30).
SchedulerNext ==
  \/ SchedulerWakes
  \/ \E wr \in BOOLEAN,
        response \in {FleetStatus(settings, SummaryOutcome(clock))} :
       SchedCollected(response, {}, wr)
  \/ \E wr \in BOOLEAN : SchedCollectFailed(wr)
  \/ SchedCancelled

\* Registrations and disconnects: all of a viewer that the scheduler and
\* the broadcast can see.  What a generator has taken from its own queue
\* (Deliver) is not followed in FairSpec and SpecPutFail.
ViewerRegistration ==
  /\ life_pc # "stopped"
  /\ \E v \in Viewers :
       \/ Connect(v)
       \/ StartStream(v)
       \/ Disconnect(v)
       \/ DisconnectBeforeStream(v)

NextFair ==
  \/ SchedulerNext
  \/ TimerElapse
  \/ ViewerRegistration
  \/ LifespanShutdown
  \/ LifespanTaskExited

FairSpec ==
  Init /\ [][NextFair]_vars /\ WF_vars(SchedulerNext) /\ WF_vars(TimerElapse)

\* The hub in an environment where client_queue.put may raise, for any
\* subset of the queues of a broadcast; the put is the only thing that fails.
NextPutFail ==
  \/ SchedStart
  \/ SchedShortWaitDone
  \/ SchedLongWaitWake
  \/ SchedLongWaitTimeout
  \/ \E raises \in SUBSET status_cache.connected_clients,
        response \in {FleetStatus(settings, SummaryOutcome(clock))} :
       SchedCollected(response, raises, FALSE)
  \/ SchedCancelled
  \/ TimerElapse
  \/ ViewerRegistration
  \/ LifespanShutdown
  \/ LifespanTaskExited

SpecPutFail == Init /\ [][NextPutFail]_vars

\* ------------------------------------------------- SpecCollect (collector)

\* Variant of gather that returns the results as they completed.
gather_by_completion(results, order) ==
  [k \in 1..Len(results) |-> results[order[k]]]

\* asyncio.gather(*tasks, return_exceptions=True): the results in the order
\* of the awaitables, whatever the order in which they completed.
gather(results, order) == results

\* Executor calls are logged as <<check, alias, command>>; check is the
\* member's index, JumpCheck for the jump host's check.
JumpCheck == 0

\* The executor calls a host check issues after a probe with rc = 0: the
\* monitor command, and the accelerator tool probe if check_gpu.
sub_check_calls(check, host_config) ==
  {<<check, host_config.alias, TOP_CMD>>}
    \cup (IF host_config.check_gpu
            THEN {<<check, host_config.alias, CHECK_NVIDIA_SMI_CMD>>}
            ELSE {})

\* periodic_status_fetch from the jump host's status on (api.py:80-112),
\* up to its next await: either the member checks are created and gathered
\* (each runs to its probe's executor call), or the run has its member list.
members_phase(cfg, jhs) ==
  LET hosts == cfg.monitored_hosts
  IN IF members_are_checked(jhs)
       THEN IF hosts # <<>>
              THEN [pc |-> "await_members",
                    tasks |-> [i \in 1..Len(hosts) |-> "running"],
                    calls |-> {<<i, hosts[i].alias, CHECK_REACHABILITY_CMD>> :
                                 i \in 1..Len(hosts)},
                    statuses |-> <<>>]
              ELSE [pc |-> "done", tasks |-> <<>>, calls |-> {},
                    statuses |-> <<>>]
     ELSE IF cfg.jump_host # NoJumpHost /\ jhs # None /\ jhs.status # "up"
       THEN [pc |-> "done", tasks |-> <<>>, calls |-> {},
             statuses |-> skipped_statuses(cfg.jump_host, hosts)]
     ELSE [pc |-> "done", tasks |-> <<>>, calls |-> {}, statuses |-> <<>>]

\* Variant of get_status_members_phase that skips the members only when the
\* jump host's status is "down".
get_status_members_phase_unless_down(cfg, jhs) ==
  LET monitored_hosts_config == cfg.monitored_hosts
  IN IF jhs = None \/ jhs.status # "down"
       THEN IF monitored_hosts_config # <<>>
              THEN [pc |-> "await_members",
                    tasks |-> [i \in 1..Len(monitored_hosts_config) |->
                                 "running"],
                    calls |-> {<<i, monitored_hosts_config[i].alias,
                                 CHECK_REACHABILITY_CMD>> :
                                 i \in 1..Len(monitored_hosts_config)},
                    statuses |-> <<>>]
              ELSE [pc |-> "done", tasks |-> <<>>, calls |-> {},
                    statuses |-> <<>>]
     ELSE IF cfg.jump_host # NoJumpHost /\ jhs # None /\ jhs.status # "up"
       THEN [pc |-> "done", tasks |-> <<>>, calls |-> {},
             statuses |->
               [i \in 1..Len(monitored_hosts_config) |->
                  HostStatus(monitored_hosts_config[i].alias, "skipped",
                             Message(<<cfg.jump_host, " down">>), None)]]
     ELSE [pc |-> "done", tasks |-> <<>>, calls |-> {}, statuses |-> <<>>]

\* get_status from the jump host's status on (api.py:243-282), up to its next
\* await: the request handler's own copy of the scheduler's member phase.
\* Members are checked if there is no jump host status or it is "up"
\* (api.py:245); a task per member is created and gathered (256-258) unless
\* the list is empty (259-260, 270); with a jump host that is not up every
\* member is marked skipped with "<jump_host> down" (272-280).
get_status_members_phase(cfg, jhs) ==
  LET monitored_hosts_config == cfg.monitored_hosts
  IN IF jhs = None \/ jhs.status = "up"
       THEN IF monitored_hosts_config # <<>>
              THEN [pc |-> "await_members",
                    tasks |-> [i \in 1..Len(monitored_hosts_config) |->
                                 "running"],
                    calls |-> {<<i, monitored_hosts_config[i].alias,
                                 CHECK_REACHABILITY_CMD>> :
                                 i \in 1..Len(monitored_hosts_config)},
                    statuses |-> <<>>]
              ELSE [pc |-> "done", tasks |-> <<>>, calls |-> {},
                    statuses |-> <<>>]
     ELSE IF cfg.jump_host # NoJumpHost /\ jhs # None /\ jhs.status # "up"
       THEN [pc |-> "done", tasks |-> <<>>, calls |-> {},
             statuses |->
               [i \in 1..Len(monitored_hosts_config) |->
                  HostStatus(monitored_hosts_config[i].alias, "skipped",
                             Message(<<cfg.jump_host, " down">>), None)]]
     ELSE [pc |-> "done", tasks |-> <<>>, calls |-> {}, statuses |-> <<>>]

\* Variant of HubStep in which a request for /api/status stamps, caches and
\* publishes like the scheduler's run.
HubStep_for_every_run(r, starting, finished, response) ==
  LET t == IF starting THEN clock + 1 ELSE clock
  IN /\ clock' = t
     /\ IF finished
          THEN LET p == publish(status_cache, client_queue, response,
                                t, {})
                   w == wait_logic(p.cache, FALSE)
               IN /\ status_cache' = w.cache
                  /\ client_queue' = p.queues
                  /\ sched_pc' = w.pc
                  /\ wait_timeout' = w.timeout
                  /\ publishes' = Append(publishes,
                        [data |-> response, timestamp |-> isoformat(t),
                         copy |-> status_cache.connected_clients,
                         raised |-> {}])
          ELSE /\ sched_pc' = "collecting"
               /\ UNCHANGED <<status_cache, client_queue, wait_timeout,
                              publishes>>
     /\ UNCHANGED <<viewer_pc, received, timer_elapsed,
                    cancel_requested, life_pc, enqueued, reg_latest,
                    reg_in_long_wait, phase_failed, wait_raised>>

\* What a step of run r does to the hub: get_status touches nothing of it;
\* the scheduler's run stamps the phase and, when the phase ends, publishes
\* and enters the wait (api.py:114-160).
HubStep(r, starting, finished, response) ==
  IF r = "get_status"
    THEN UNCHANGED hubVars
    ELSE LET t == IF starting THEN clock + 1 ELSE clock
         IN /\ clock' = t
            /\ IF finished
                 THEN LET p == publish(status_cache, client_queue, response,
                                       t, {})
                          w == wait_logic(p.cache, FALSE)
                      IN /\ status_cache' = w.cache
                         /\ client_queue' = p.queues
                         /\ sched_pc' = w.pc
                         /\ wait_timeout' = w.timeout
                         /\ publishes' = Append(publishes,
                               [data |-> response, timestamp |-> isoformat(t),
                                copy |-> status_cache.connected_clients,
                                raised |-> {}])
                 ELSE /\ sched_pc' = "collecting"
                      /\ UNCHANGED <<status_cache, client_queue, wait_timeout,
                                     publishes>>
            /\ UNCHANGED <<viewer_pc, received, timer_elapsed,
                           cancel_requested, life_pc, enqueued, reg_latest,
                           reg_in_long_wait, phase_failed, wait_raised>>

\* Run r goes on from the jump host's status jhs to its next await.
AfterJumpHost(r, starting, jhs, calls) ==
  LET m == IF r = "get_status"
             THEN get_status_members_phase(settings, jhs)
             ELSE members_phase(settings, jhs)
      response == ApiResponse(jhs, m.statuses)
  IN /\ run_pc' = [run_pc EXCEPT ![r] = m.pc]
     /\ jump_host_status' = [jump_host_status EXCEPT ![r] = jhs]
     /\ task_pc' = [task_pc EXCEPT ![r] = m.tasks]
     /\ task_result' = [task_result EXCEPT ![r] =
                          [i \in 1..Len(m.tasks) |-> None]]
     /\ ssh_calls' = [ssh_calls EXCEPT ![r] = @ \cup calls \cup m.calls]
     /\ response_data' = [response_data EXCEPT ![r] =
                            IF m.pc = "done" THEN response ELSE None]
     /\ HubStep(r, starting, m.pc = "done", response)
     /\ UNCHANGED <<parseVars, hostVars, settings, executor, completion>>

\* The run starts: the scheduler's loop body (api.py:64) or a request for
\* /api/status (api.py:228).  With a jump host it awaits the jump host's
\* check; without, it goes on to the members.  One run is followed at a time.
RunStart(r) ==
  /\ run_pc[r] = "idle"
  /\ \A q \in Runs : run_pc[q] \in {"idle", "done"}
  /\ r = "periodic" => sched_pc = "start"
  /\ IF settings.jump_host # NoJumpHost
       THEN /\ run_pc' = [run_pc EXCEPT ![r] = "await_jump"]
            /\ ssh_calls' = [ssh_calls EXCEPT ![r] =
                  @ \cup {<<JumpCheck, settings.jump_host,
                            CHECK_REACHABILITY_CMD>>}]
            /\ HubStep(r, TRUE, FALSE, None)
            /\ UNCHANGED <<parseVars, hostVars, settings, executor, jump_host_status, task_pc,
                           task_result, completion, response_data>>
       ELSE AfterJumpHost(r, TRUE, None, {})

\* check_host_concurrently(jump_host_config) returns (api.py:75 / 238)
JumpHostChecked(r) ==
  /\ run_pc[r] = "await_jump"
  /\ LET cfg == jump_host_config(settings.jump_host)
         outcome == executor[settings.jump_host]
     IN AfterJumpHost(r, FALSE, check_host_concurrently(cfg, outcome),
                      IF outcome \in ReachableOutcomes
                        THEN sub_check_calls(JumpCheck, cfg) ELSE {})

\* The i-th member check returns; the run still awaits the gather.
MemberChecked(r, i) ==
  /\ run_pc[r] = "await_members"
  /\ i \in DOMAIN task_pc[r]
  /\ task_pc[r][i] = "running"
  /\ LET cfg == settings.monitored_hosts[i]
         outcome == executor[cfg.alias]
     IN /\ task_result' = [task_result EXCEPT ![r][i] =
                             check_host_concurrently(cfg, outcome)]
        /\ ssh_calls' = [ssh_calls EXCEPT ![r] = @ \cup
              IF outcome \in ReachableOutcomes
                THEN sub_check_calls(i, cfg) ELSE {}]
  /\ task_pc' = [task_pc EXCEPT ![r][i] = "done"]
  /\ completion' = [completion EXCEPT ![r] = Append(@, i)]
  /\ UNCHANGED <<hubVars, parseVars, hostVars, settings, executor, run_pc, jump_host_status,
                 response_data>>

\* Variant of Gathered in which the gather returns only if no member check
\* ended in status "error".
Gathered_unless_error(r) ==
  /\ run_pc[r] = "await_members"
  /\ \A i \in DOMAIN task_pc[r] :
       task_pc[r][i] = "done" /\ task_result[r][i].status # "error"
  /\ LET results == gather(task_result[r], completion[r])
         response == ApiResponse(jump_host_status[r],
                                 append_host_statuses(results))
     IN /\ response_data' = [response_data EXCEPT ![r] = response]
        /\ HubStep(r, FALSE, TRUE, response)
  /\ run_pc' = [run_pc EXCEPT ![r] = "done"]
  /\ UNCHANGED <<parseVars, hostVars, settings, executor, jump_host_status, task_pc, task_result,
                 completion, ssh_calls>>

\* Every member check is done: gather returns and the run builds its
\* response (api.py:90-117 / 258-285).
Gathered(r) ==
  /\ run_pc[r] = "await_members"
  /\ \A i \in DOMAIN task_pc[r] : task_pc[r][i] = "done"
  /\ LET results == gather(task_result[r], completion[r])
         response == ApiResponse(jump_host_status[r],
                                 append_host_statuses(results))
     IN /\ response_data' = [response_data EXCEPT ![r] = response]
        /\ HubStep(r, FALSE, TRUE, response)
  /\ run_pc' = [run_pc EXCEPT ![r] = "done"]
  /\ UNCHANGED <<parseVars, hostVars, settings, executor, jump_host_status, task_pc, task_result,
                 completion, ssh_calls>>

\* monitored_hosts lists of distinct members, check_gpu set for the first
\* member alias only
RECURSIVE HostLists(_)
HostLists(n) ==
  IF n = 0 THEN {<<>>}
  ELSE HostLists(n - 1) \cup
       {Append(hosts, MonitoredHostConfig(a, a = MemberNames[1])) :
          hosts \in {h \in HostLists(n - 1) : Len(h) = n - 1},
          a \in MemberAliases}

CollectSettings ==
  {[jump_host |-> j, monitored_hosts |-> hosts] :
     j \in {NoJumpHost, JumpAlias},
     hosts \in {h \in HostLists(MaxMembers) :
                 \A i, k \in 1..Len(h) : i # k => h[i].alias # h[k].alias}}

InitCollect ==
  /\ HubInit
  /\ settings \in CollectSettings
  /\ executor \in [Aliases -> HostOutcomes]
  /\ CollectIdle
  /\ checked_config = MonitoredHostConfig(MemberNames[1], TRUE)
  /\ HostIdle
  /\ ParseIdle

NextCollect ==
  \E r \in Runs :
    \/ RunStart(r)
    \/ JumpHostChecked(r)
    \/ \E i \in 1..MaxMembers : MemberChecked(r, i)
    \/ Gathered(r)

SpecCollect == InitCollect /\ [][NextCollect]_vars

\* ------------------------------------- FairSpecCollect (collections end)

\* Collections of every member, with and without a jump host, under every
\* outcome of the executor.
FairCollectSettings ==
  {[jump_host |-> j,
    monitored_hosts |-> [i \in 1..MaxMembers |->
                           MonitoredHostConfig(MemberNames[i], i = 1)]] :
     j \in {NoJumpHost, JumpAlias}}

InitFairCollect ==
  /\ HubInit
  /\ settings \in FairCollectSettings
  /\ executor \in [Aliases -> HostOutcomes]
  /\ CollectIdle
  /\ checked_config = MonitoredHostConfig(MemberNames[1], TRUE)
  /\ HostIdle
  /\ ParseIdle

\* a host check returns, or the gather does
CollectProgress ==
  \E r \in Runs :
    \/ JumpHostChecked(r)
    \/ \E i \in 1..MaxMembers : MemberChecked(r, i)
    \/ Gathered(r)

\* Every executor call returns and the event loop resumes what is ready.
FairSpecCollect ==
  InitFairCollect /\ [][NextCollect]_vars /\ WF_vars(CollectProgress)

\* ------------------------------------------------- SpecHost (one host check)

\* One call of get_full_host_status, for a monitored host with or without
\* check_gpu or for the jump host (api.py:74-75); the hub and the collector
\* stand still.
InitHost ==
  /\ HubInit
  /\ settings = HubSettings
  /\ executor = [a \in Aliases |-> "up"]
  /\ CollectIdle
  /\ checked_config \in {MonitoredHostConfig(MemberNames[1], check_gpu) :
                           check_gpu \in BOOLEAN}
                          \cup {jump_host_config(JumpAlias)}
  /\ HostIdle
  /\ ParseIdle

NextHost ==
  \/ HostCheckStart
  \/ ReachabilityReturned
  \/ TopReturned
  \/ SmiReturned
  \/ QueryReturned
  \/ \E i \in 1..MaxGpus : i <= Len(gpu_indices) /\ ProcReturned(i)
  \/ ProcsGathered
  \/ HostGathered

SpecHost == InitHost /\ [][NextHost]_vars

\* ------------------------------------------- SpecParse (one parser call)

\* lines of a listing beside the well-formed ones: one value too many, a
\* value int() rejects, a decimal value where float() and where int() is
\* applied, and lines of a process listing
ExtraFieldLine ==
  <<Num(1), Text("GPU"), Num(0), Num(0), Num(0), Num(0), Num(0), Num(0),
    Text("extra")>>
UncoercibleLine ==
  <<Num(1), Text("GPU"), Text("[N/A]"), Num(0), Num(0), Num(0), Num(0),
    Num(0)>>
DecimalPowerLine ==
  <<Num(1), Text("GPU"), Num(0), Num(0), Num(0), Num(0), Dec(2500), Dec(1234)>>
DecimalMemoryLine ==
  <<Num(1), Text("GPU"), Num(0), Dec(5), Num(0), Num(0), Num(0), Num(0)>>
ShortProcessLine == <<Num(1234), Text("python")>>
CsvLines ==
  ListingLines \cup {ExtraFieldLine, UncoercibleLine, DecimalPowerLine,
                     DecimalMemoryLine, ProcessLine, ShortProcessLine}
CsvTexts ==
  {Lines(l) : l \in UNION {[1..n -> CsvLines] : n \in 0..MaxLines}}

\* lines of top's output: the two the parsers look for, a memory line of a
\* host reporting no memory, an idle share without decimals (the pattern
\* wants \d+[,.]\d+) and a line of something else
WholeIdleLine == <<Text("%Cpu(s):"), Text("100"), Text("id")>>
TopLines ==
  {CpuLine(900), MemLine(160000, 40000), MemLine(0, 0), WholeIdleLine,
   UnparseableLine}
TopTexts ==
  {None} \cup
  {Lines(l) : l \in UNION {[1..n -> TopLines] : n \in 0..MaxLines}}

ParserCalls ==
  {[function |-> "parse_nvidia_smi_csv", csv_output |-> t,
    expected_keys |-> k] : t \in CsvTexts, k \in {GpuKeys, ProcessKeys}}
    \cup {[function |-> "parse_host_metrics", top_output |-> t] :
            t \in TopTexts}

\* One call of a parser on some text; everything else stands still.
InitParse ==
  /\ HubInit
  /\ settings = HubSettings
  /\ executor = [a \in Aliases |-> "up"]
  /\ CollectIdle
  /\ checked_config = MonitoredHostConfig(MemberNames[1], TRUE)
  /\ HostIdle
  /\ parser_call \in ParserCalls
  /\ parser_result = None

\* parsers.parse_nvidia_smi_csv runs to its end
ParseCsvReturned ==
  /\ parser_call.function = "parse_nvidia_smi_csv"
  /\ parser_result = None
  /\ LET raised == parse_nvidia_smi_csv_raises(parser_call.csv_output,
                                               parser_call.expected_keys)
     IN parser_result' =
          IF raised # None THEN [raised |-> raised]
          ELSE [returned |->
                  parse_nvidia_smi_csv(parser_call.csv_output,
                                       parser_call.expected_keys)]
  /\ UNCHANGED <<hubVars, settings, collectVars, hostVars, parser_call>>

\* parsers.parse_host_metrics runs to its end
ParseTopReturned ==
  /\ parser_call.function = "parse_host_metrics"
  /\ parser_result = None
  /\ parser_result' =
       [returned |-> parse_host_metrics(parser_call.top_output)]
  /\ UNCHANGED <<hubVars, settings, collectVars, hostVars, parser_call>>

NextParse == ParseCsvReturned \/ ParseTopReturned

SpecParse == InitParse /\ [][NextParse]_vars

\* ------------------------------------------------------------------ claims

Last(seq) == seq[Len(seq)]

\* how many times a broadcast put message m to v's queue
Copies(v, m) ==
  Cardinality({i \in 1..Len(enqueued[v]) :
                 enqueued[v][i] = [message |-> m, via |-> "broadcast"]})

PublishedMessage(p) == WireMessage(p.data, p.timestamp)

\* C3: a subscriber that registers while `latest` is set has exactly one
\* message in its queue, the wire message of that `latest`, before any
\* message of a later publish is put to it; one that registers while
\* `latest` is absent has had nothing put to its queue until the next publish.
C3_InitialMessageFirst ==
  \A v \in Viewers : viewer_pc[v] # "idle" =>
    LET puts == enqueued[v]
        initial == [message |-> reg_latest[v], via |-> "initial"]
        first_broadcast == IF reg_latest[v] # None THEN 2 ELSE 1
    IN /\ reg_latest[v] # None => Len(puts) >= 1 /\ puts[1] = initial
       /\ \A i \in first_broadcast..Len(puts) :
            /\ puts[i].via = "broadcast"
            /\ reg_latest[v] # None =>
                 puts[i].message.last_updated.isoformat
                   > reg_latest[v].last_updated.isoformat
       \* no publish since the registration: `latest` is still the same
       /\ get_latest_status_message(status_cache) = reg_latest[v] =>
            puts = IF reg_latest[v] # None THEN <<initial>> ELSE <<>>

\* a viewer registered with `latest` set and a later publish reached it
C3_Witness ==
  \E v \in Viewers :
    /\ reg_latest[v] # None
    /\ Len(enqueued[v]) >= 2
    /\ \E w \in Viewers : viewer_pc[w] # "idle" /\ reg_latest[w] = None

\* C4: a subscriber that registers at any moment of a long wait ends the
\* wait: from the registration on the activity event is set, the wake-up of
\* the task is enabled without the timeout having run out, and the task
\* leaves the wait only into the next Collecting phase (or by cancellation).
C4_LongWaitInterruptible ==
  (sched_pc = "long_wait" /\ reg_in_long_wait) =>
     /\ status_cache.client_activity_event
     /\ (~cancel_requested /\ clock < MaxCycles) => ENABLED SchedLongWaitWake

\* a registration during a long wait whose timeout has not run out
C4_Witness ==
  /\ sched_pc = "long_wait"
  /\ reg_in_long_wait
  /\ ~timer_elapsed
  /\ clock < MaxCycles

\* C5 as stated: after a Collecting phase that raised, the task waits the
\* 60 s fallback delay.
C5_FailedPhaseWaitsFallback ==
  (phase_failed /\ sched_pc \in WaitStates) =>
     sched_pc = "fallback_sleep" /\ wait_timeout = FallbackSleepSec

\* C5 amended: after a Collecting phase that raised, the task goes through
\* the normal wait logic: the short interval if subscribers are registered,
\* the long one otherwise; the 60 s fallback delay is waited only when the
\* wait logic itself raised.
C5_FailedPhaseWaitsNormalInterval ==
  /\ sched_pc = "fallback_sleep" <=> (sched_pc \in WaitStates /\ wait_raised)
  /\ sched_pc = "fallback_sleep" => wait_timeout = FallbackSleepSec
  /\ (phase_failed /\ sched_pc \in WaitStates /\ ~wait_raised) =>
       \/ sched_pc = "short_wait"
            /\ wait_timeout = refresh_interval_clients_sec
       \/ sched_pc = "long_wait"
            /\ wait_timeout = refresh_interval_no_clients_sec

\* a failed phase followed by a normal short wait
C5_Witness ==
  /\ phase_failed
  /\ sched_pc = "short_wait"
  /\ wait_timeout = refresh_interval_clients_sec

\* C6: a Collecting phase that raises does not end the task: the task ends
\* only by cancellation, and after a failed phase it waits and then starts
\* another Collecting phase, unless the process is shut down.
C6_FailedPhaseRecovers ==
  /\ [](sched_pc = "cancelled" => cancel_requested)
  /\ [](sched_pc \in {"start", "collecting", "cancelled"} \cup WaitStates)
  /\ (phase_failed /\ sched_pc \in WaitStates /\ clock < MaxCycles)
       ~> (sched_pc = "collecting" \/ cancel_requested)

\* a Collecting phase running after a phase that raised
C6_Witness ==
  /\ phase_failed
  /\ sched_pc = "collecting"
  /\ clock >= 2

\* the subscribers the last publish has reached
ReachedByLastPublish ==
  {v \in Viewers : Copies(v, PublishedMessage(Last(publishes))) >= 1}

\* C7: shutdown cancels the task and waits for its exit; the task is never
\* stopped in the middle of a publish (`latest` is never a snapshot that
\* reached some but not all of the subscribers registered for its publish),
\* and nothing is published once shutdown has completed.
C7_ShutdownClean ==
  /\ [](life_pc = "stopped" => sched_pc = "cancelled")
  /\ [](publishes # <<>> =>
          /\ get_latest_status_message(status_cache)
               = PublishedMessage(Last(publishes))
          /\ ReachedByLastPublish = Last(publishes).copy)
  /\ [][life_pc = "stopped" =>
          /\ status_cache' = status_cache
          /\ client_queue' = client_queue
          /\ publishes' = publishes]_vars

\* shutdown completed after a publish to two subscribers
C7_Witness ==
  /\ life_pc = "stopped"
  /\ publishes # <<>>
  /\ Cardinality(Last(publishes).copy) >= 2

\* C8 as stated: the subscriber of a viewer that has disconnected is no
\* longer registered, whatever the moment of the disconnect.
C8_DisconnectedViewerRemoved ==
  \A v \in Viewers :
    viewer_pc[v] = "closed" => v \notin status_cache.connected_clients

\* C9: publish sets `latest` to the new snapshot and then puts its wire
\* message to every subscriber registered at the call; a put that raises
\* loses only its own subscriber's copy.
C9_PublishReachesAll ==
  /\ publishes # <<>> =>
       get_latest_status_message(status_cache)
         = PublishedMessage(Last(publishes))
  /\ \A i \in 1..Len(publishes) :
       LET p == publishes[i]
       IN \A v \in Viewers :
            Copies(v, PublishedMessage(p))
              = IF v \in p.copy \ p.raised THEN 1 ELSE 0

\* a publish in which a put raised and a subscriber later in the copy got
\* the message
C9_Witness ==
  \E i \in 1..Len(publishes) :
    \E v \in publishes[i].raised :
      \E w \in publishes[i].copy \ publishes[i].raised :
        /\ v < w
        /\ Copies(w, PublishedMessage(publishes[i])) = 1

\* C10: every subscriber registered for the whole of a publish gets the
\* published message exactly once, whatever the other viewers do.
C10_StableSubscriberExactlyOnce ==
  \A i \in 1..Len(publishes) :
    \A v \in publishes[i].copy :
      Copies(v, PublishedMessage(publishes[i])) = 1

\* two publishes, the first to two subscribers of which one then left
C10_Witness ==
  /\ Len(publishes) >= 2
  /\ Cardinality(publishes[1].copy) >= 2
  /\ publishes[2].copy # publishes[1].copy
  /\ publishes[2].copy # {}

\* the executor calls of run r that a member check issued
MemberCalls(r) ==
  {c \in ssh_calls[r] : c[1] # JumpCheck \/ c[2] \in MemberAliases}

\* C1: in every collection run where a jump host is configured and its check
\* ended in a status other than "up", every configured member is in
\* monitored_hosts_status, in configuration order, with status "skipped" and
\* an error_message that names the jump host, and no executor call was
\* issued for a member during the run.
C1_JumpHostNotUpSkipsMembers ==
  \A r \in Runs :
    (/\ settings.jump_host # NoJumpHost
     /\ jump_host_status[r] # None
     /\ jump_host_status[r].status # "up") =>
       LET hosts == settings.monitored_hosts
           mhs == response_data[r].monitored_hosts_status
       IN /\ run_pc[r] = "done"
          /\ response_data[r].jump_host_status = jump_host_status[r]
          /\ Len(mhs) = Len(hosts)
          /\ \A i \in 1..Len(hosts) :
               /\ mhs[i].hostname = hosts[i].alias
               /\ mhs[i].status = "skipped"
               /\ \E k \in 1..Len(mhs[i].error_message.pieces) :
                    mhs[i].error_message.pieces[k] = settings.jump_host
          /\ MemberCalls(r) = {}
          /\ r = "periodic" => status_cache.latest_status_data
                                 = response_data[r]

\* a run with two members whose jump host check raised
C1_Witness ==
  \E r \in Runs :
    /\ run_pc[r] = "done"
    /\ jump_host_status[r] # None
    /\ jump_host_status[r].status = "error"
    /\ Len(response_data[r].monitored_hosts_status) = 2

\* C2: when the members are checked (no jump host, or jump host "up"),
\* monitored_hosts_status has exactly one HostStatus per configured member
\* and its i-th entry is the result of the check of the i-th configured
\* member, in whatever order the concurrent checks completed.
C2_MemberOrderIsConfigOrder ==
  \A r \in Runs :
    (run_pc[r] = "done" /\ members_are_checked(jump_host_status[r])) =>
       LET hosts == settings.monitored_hosts
           mhs == response_data[r].monitored_hosts_status
       IN /\ Len(mhs) = Len(hosts)
          /\ \A i \in 1..Len(hosts) :
               /\ IsHostStatus(mhs[i])
               /\ mhs[i].hostname = hosts[i].alias
               /\ mhs[i] = task_result[r][i]
               /\ mhs[i] = check_host_concurrently(
                              hosts[i], executor[hosts[i].alias])

\* the second member's check completed before the first one's, with a
\* different status
C2_Witness ==
  \E r \in Runs :
    /\ run_pc[r] = "done"
    /\ members_are_checked(jump_host_status[r])
    /\ completion[r] = <<2, 1>>
    /\ response_data[r].monitored_hosts_status[1].status
         # response_data[r].monitored_hosts_status[2].status

\* what viewer v has to receive: the message cached at its registration,
\* then the message of every publish made while it is registered, in order
ExpectedMessages(v) ==
  LET DuringRegistration(p) == v \in p.copy
      during == SelectSeq(publishes, DuringRegistration)
  IN (IF reg_latest[v] # None THEN <<reg_latest[v]>> ELSE <<>>)
       \o [i \in 1..Len(during) |-> PublishedMessage(during[i])]

\* C11: the messages a subscriber receives between registration and
\* disconnect are the cached message, if there was one at registration,
\* then the message of every publish made while it is registered, in publish
\* order, none skipped and none reordered: what it has received is always a
\* prefix of that sequence, and the rest waits in its queue in order.
C11_ReceivedInPublishOrder ==
  \A v \in Viewers : viewer_pc[v] # "idle" =>
    LET expected == ExpectedMessages(v)
    IN /\ Len(received[v]) <= Len(expected)
       /\ \A i \in 1..Len(received[v]) : received[v][i] = expected[i]
       /\ viewer_pc[v] \in {"registered", "streaming"} =>
            received[v] \o client_queue[v] = expected

\* a viewer has received the cached message and then a publish
C11_Witness ==
  \E v \in Viewers :
    /\ reg_latest[v] # None
    /\ Len(received[v]) = 2
    /\ received[v][1] # received[v][2]

\* C12: when the task enters a wait it takes the short interval if and only
\* if at least one subscriber is registered at that moment, and the long
\* interval otherwise.
C12_IntervalBySubscribers ==
  [][(sched_pc = "collecting" /\ sched_pc' \in {"short_wait", "long_wait"}) =>
       LET present == status_cache.connected_clients # {}
       IN /\ sched_pc' = "short_wait" <=> present
          /\ wait_timeout' = IF present THEN refresh_interval_clients_sec
                                        ELSE refresh_interval_no_clients_sec
          /\ status_cache'.connected_clients = status_cache.connected_clients
    ]_vars

\* a short wait chosen after a publish to a registered subscriber
C12_Witness ==
  /\ sched_pc = "short_wait"
  /\ ~phase_failed
  /\ publishes # <<>>
  /\ Last(publishes).copy # {}
  /\ wait_timeout = refresh_interval_clients_sec

\* C13: once the task is in a short wait, no registration or deregistration
\* shortens or ends it: the task leaves the wait only when the interval has
\* run out (or by cancellation), and viewers do not make the interval run out.
C13_ShortWaitNotInterrupted ==
  [][sched_pc = "short_wait" =>
       /\ \/ sched_pc' = "short_wait" /\ wait_timeout' = wait_timeout
          \/ sched_pc' = "collecting" /\ timer_elapsed
          \/ sched_pc' = "cancelled" /\ cancel_requested
       /\ timer_elapsed' # timer_elapsed =>
            viewer_pc' = viewer_pc /\ status_cache' = status_cache
    ]_vars

\* a registration during a short wait whose interval has not run out
C13_Witness ==
  /\ sched_pc = "short_wait"
  /\ status_cache.client_activity_event
  /\ ~timer_elapsed

\* C14: a publish never changes the set of registered subscribers, even when
\* a put raises; the set changes only by a handler's add_client (a viewer
\* connects) or remove_client (a streaming viewer disconnects).
C14_PublishKeepsSubscribers ==
  [][LET before == status_cache.connected_clients
         after == status_cache'.connected_clients
     IN /\ publishes' # publishes => after = before
        /\ after # before =>
             \E v \in Viewers :
               \/ /\ viewer_pc[v] = "idle" /\ viewer_pc'[v] = "registered"
                  /\ after = before \cup {v}
               \/ /\ viewer_pc[v] = "streaming" /\ viewer_pc'[v] = "closed"
                  /\ after = before \ {v}
    ]_vars

\* after a publish in which a put raised, its subscriber is still registered
C14_Witness ==
  /\ publishes # <<>>
  /\ Last(publishes).raised # {}
  /\ Last(publishes).raised \subseteq status_cache.connected_clients
  /\ sched_pc \in WaitStates

\* C15: remove_client is idempotent: for every queue, registered or not, a
\* second call raises nothing and returns the cache the first call left.
C15_RemoveClientIdempotent ==
  \A q \in Viewers :
    LET first == remove_client(status_cache, q)
        second == remove_client(first, q)
    IN /\ ~IsException(first)
       /\ ~IsException(second)
       /\ second = first
       /\ q \notin first.connected_clients
       /\ q \notin status_cache.connected_clients => first = status_cache

\* a viewer's queue has been removed while another is registered
C15_Witness ==
  \E v, w \in Viewers :
    /\ viewer_pc[v] = "closed"
    /\ v \notin status_cache.connected_clients
    /\ w \in status_cache.connected_clients

\* C16: a viewer's disconnect removes its own queue only: the registration
\* and the queued messages of every other viewer, `latest`, the activity
\* event and the task's phase and pending wait stay as they are.
C16_DisconnectTouchesOwnOnly ==
  [][\A v \in Viewers :
       (viewer_pc[v] \in {"registered", "streaming"}
          /\ viewer_pc'[v] = "closed") =>
         /\ status_cache'.connected_clients \ {v}
              = status_cache.connected_clients \ {v}
         /\ viewer_pc[v] = "streaming" =>
              v \notin status_cache'.connected_clients
         /\ \A w \in Viewers \ {v} :
              /\ client_queue'[w] = client_queue[w]
              /\ viewer_pc'[w] = viewer_pc[w]
              /\ received'[w] = received[w]
         /\ status_cache'.latest_status_data = status_cache.latest_status_data
         /\ status_cache'.latest_status_timestamp
              = status_cache.latest_status_timestamp
         /\ status_cache'.client_activity_event
              = status_cache.client_activity_event
         /\ <<sched_pc, wait_timeout, timer_elapsed, clock, cancel_requested>>'
              = <<sched_pc, wait_timeout, timer_elapsed, clock,
                  cancel_requested>>
    ]_vars

\* a streaming viewer has left during a wait while another viewer, with
\* messages in its queue, stays registered
C16_Witness ==
  \E v, w \in Viewers :
    /\ viewer_pc[v] = "closed"
    /\ v \notin status_cache.connected_clients
    /\ viewer_pc[w] \in {"registered", "streaming"}
    /\ client_queue[w] # <<>>
    /\ sched_pc \in WaitStates
    /\ ~status_cache.client_activity_event

\* ---- claims about one host check (SpecHost)

\* what a command of the check returned, None while it has not
Returned(cmd) ==
  IF \E k \in 1..Len(ssh_log) : ssh_log[k] = cmd
    THEN ssh_results[CallOf(cmd)] ELSE None
Issued(cmd) == \E k \in 1..Len(ssh_log) : ssh_log[k] = cmd
HasRaised(cmd) == Returned(cmd) # None /\ IsException(Returned(cmd))
HasReturned(cmd) == Returned(cmd) # None /\ ~IsException(Returned(cmd))
ProbeFailed ==
  /\ HasReturned(CHECK_REACHABILITY_CMD)
  /\ Returned(CHECK_REACHABILITY_CMD).rc # 0

\* C17: once the reachability probe has returned a non-zero exit code, or a
\* negative code because it could not be executed, the check is over with
\* status "down" and a non-empty error_message, and the probe is the only
\* command the check ever issued: no monitor command and no accelerator
\* command.
C17_UnreachableShortCircuits ==
  ProbeFailed =>
    /\ host_pc = "done"
    /\ host_status # None
    /\ host_status.status = "down"
    /\ host_status.error_message # None
    /\ host_status.error_message.pieces # <<>>
    /\ host_status.metrics = None
    /\ host_status.gpus = None
    /\ ssh_log = <<CHECK_REACHABILITY_CMD>>

C17_Witness ==
  /\ ProbeFailed
  /\ Returned(CHECK_REACHABILITY_CMD).rc < 0
  /\ checked_config.check_gpu
  /\ host_pc = "done"
  /\ host_status.status = "down"

\* the sub-checks of a finished check whose command failed to run, by the
\* first piece of the diagnostic the code writes for each
TopFailed ==
  \/ HasRaised(TOP_CMD)
  \/ HasReturned(TOP_CMD) /\ Returned(TOP_CMD).rc # 0
SmiProbeFailed ==
  \/ HasRaised(CHECK_NVIDIA_SMI_CMD)
  \/ /\ HasReturned(CHECK_NVIDIA_SMI_CMD)
     /\ Returned(CHECK_NVIDIA_SMI_CMD).rc \notin {0, 1}
QueryFailed ==
  \/ HasRaised(NVIDIA_SMI_GPU_QUERY_CMD)
  \/ /\ HasReturned(NVIDIA_SMI_GPU_QUERY_CMD)
     /\ Returned(NVIDIA_SMI_GPU_QUERY_CMD).rc # 0
ProcessQueryErred(index) ==
  /\ HasReturned(specific_process_cmd(index))
  /\ Returned(specific_process_cmd(index)).rc # 0
  /\ Returned(specific_process_cmd(index)).stderr
       # "No running processes found"
ProcessQueryFailed(index) ==
  HasRaised(specific_process_cmd(index)) \/ ProcessQueryErred(index)
FailedDiagnostics ==
  (IF HasRaised(TOP_CMD) THEN {"Metrics Task Error: "}
   ELSE IF TopFailed THEN {"Failed to get top output from "} ELSE {})
    \cup (IF HasRaised(CHECK_NVIDIA_SMI_CMD)
               \/ HasRaised(NVIDIA_SMI_GPU_QUERY_CMD)
            THEN {"GPU Task Error: "} ELSE {})
    \cup (IF SmiProbeFailed /\ ~HasRaised(CHECK_NVIDIA_SMI_CMD)
            THEN {"nvidia-smi not found"} ELSE {})
    \cup (IF QueryFailed /\ ~HasRaised(NVIDIA_SMI_GPU_QUERY_CMD)
            THEN {"Failed to get nvidia-smi GPU query from "} ELSE {})
    \cup (IF \E index \in GpuIndexes : ProcessQueryErred(index)
            THEN {"Failed to get nvidia-smi process query for GPU "}
            ELSE {})
    \cup (IF \E index \in GpuIndexes :
               HasRaised(specific_process_cmd(index))
            THEN {"Exception fetching process info for GPU "} ELSE {})
NumFailed ==
  Cardinality({cmd \in {TOP_CMD, CHECK_NVIDIA_SMI_CMD,
                        NVIDIA_SMI_GPU_QUERY_CMD} :
                 \/ cmd = TOP_CMD /\ TopFailed
                 \/ cmd = CHECK_NVIDIA_SMI_CMD /\ SmiProbeFailed
                 \/ cmd = NVIDIA_SMI_GPU_QUERY_CMD /\ QueryFailed})
    + Cardinality({index \in GpuIndexes : ProcessQueryFailed(index)})
Separators(message) ==
  Cardinality({i \in 1..Len(message.pieces) : message.pieces[i] = "; "})
UpAndDone ==
  /\ host_pc = "done"
  /\ HasReturned(CHECK_REACHABILITY_CMD)
  /\ Returned(CHECK_REACHABILITY_CMD).rc = 0

\* C18: a finished check of a reachable host has status "up"; if a command
\* of a sub-check failed to run or raised (the monitor command, the tool
\* probe with a code other than 1, the base listing, a process listing),
\* error_message
\* holds the diagnostic of each failed sub-check, joined with "; "; if none
\* failed, error_message is absent.
C18_ErrorMessageListsFailedSubChecks ==
  UpAndDone =>
    /\ host_status.status = "up"
    /\ IF NumFailed = 0
         THEN host_status.error_message = None
         ELSE /\ host_status.error_message # None
              /\ \A d \in FailedDiagnostics :
                   contains(host_status.error_message, d)
              /\ Separators(host_status.error_message) = NumFailed - 1

\* C19: a finished check of a reachable host whose monitor command ran with
\* exit code 0 and gave output parse_host_metrics recovers nothing from has
\* status "up" and an error_message holding a diagnostic of the metrics
\* sub-check.
C19_ParseFailureRecorded ==
  (/\ UpAndDone
   /\ HasReturned(TOP_CMD)
   /\ Returned(TOP_CMD).rc = 0
   /\ parse_host_metrics(Returned(TOP_CMD).stdout) = None)
    => /\ host_status.status = "up"
       /\ host_status.error_message # None
       /\ \/ contains(host_status.error_message, "Metrics Error: ")
          \/ contains(host_status.error_message, "Metrics Task Error: ")

ToolAbsent ==
  /\ checked_config.check_gpu
  /\ HasReturned(CHECK_NVIDIA_SMI_CMD)
  /\ Returned(CHECK_NVIDIA_SMI_CMD).rc = 1

\* C20: once the tool probe of a reachable host with check_gpu has answered
\* with exit code 1 (tool not found), neither the base listing nor a process
\* listing is ever issued, and the finished check has gpus unset and an
\* error_message with nothing from the GPU sub-check: it is absent unless
\* the monitor command failed.
C20_ToolAbsentIsSilent ==
  ToolAbsent =>
    /\ ~Issued(NVIDIA_SMI_GPU_QUERY_CMD)
    /\ \A index \in GpuIndexes : ~Issued(specific_process_cmd(index))
    /\ host_pc = "done" =>
         /\ host_status.status = "up"
         /\ host_status.gpus = None
         /\ IF TopFailed
              THEN /\ host_status.error_message # None
                   /\ ~contains(host_status.error_message, "GPU Error: ")
                   /\ ~contains(host_status.error_message,
                                "GPU Task Error: ")
                   /\ ~contains(host_status.error_message,
                                "nvidia-smi not found")
                   /\ Separators(host_status.error_message) = 0
              ELSE host_status.error_message = None

C20_Witness ==
  /\ ToolAbsent
  /\ host_pc = "done"
  /\ ~TopFailed
  /\ host_status.gpus = None
  /\ host_status.error_message = None

ListedIndexes == {gpu_indices[i] : i \in 1..Len(gpu_indices)}
\* the check is over for a reachable host whose process queries were
\* gathered, one query for each index of a listing that names no index twice
ProcessesGathered ==
  /\ UpAndDone
  /\ checked_config.check_gpu
  /\ gpu_indices # <<>>
  /\ Cardinality(ListedIndexes) = Len(gpu_indices)
  /\ \A i \in 1..Len(gpu_indices) :
       Returned(specific_process_cmd(gpu_indices[i])) # None
\* the GpuInfo reported for index, None if there is none
ReportedGpu(index) ==
  IF host_status.gpus = None
       \/ ~\E i \in 1..Len(host_status.gpus.list) :
             host_status.gpus.list[i].index = index
    THEN None
    ELSE host_status.gpus.list[
           CHOOSE i \in 1..Len(host_status.gpus.list) :
             host_status.gpus.list[i].index = index]
\* error_message holds a process-query diagnostic that names index
NamesIndex(message, index) ==
  /\ message # None
  /\ \E i \in 1..(Len(message.pieces) - 1) :
       /\ message.pieces[i] \in
            {"Failed to get nvidia-smi process query for GPU ",
             "Exception fetching process info for GPU "}
       /\ message.pieces[i + 1] = ToString(index)
\* the processes the answer of index's own query lists
OwnProcesses(index) ==
  LET result == Returned(specific_process_cmd(index))
  IN IF result.rc # 0 THEN <<>>
     ELSE [j \in 1..Len(result.stdout.lines) |->
             [pid |-> result.stdout.lines[j][1].num,
              process_name |-> result.stdout.lines[j][2],
              used_gpu_memory |-> result.stdout.lines[j][3].num]]

NoProcessesFound(index) ==
  /\ HasReturned(specific_process_cmd(index))
  /\ \/ /\ Returned(specific_process_cmd(index)).rc # 0
        /\ Returned(specific_process_cmd(index)).stderr
             = "No running processes found"
     \/ /\ Returned(specific_process_cmd(index)).rc = 0
        /\ Returned(specific_process_cmd(index)).stdout = Lines(<<>>)

MembersCollected(r) ==
  /\ run_pc[r] = "done"
  /\ response_data[r] # None
  /\ members_are_checked(jump_host_status[r])
\* the outcome of the executor's calls for member i
MemberOutcome(i) == executor[settings.monitored_hosts[i].alias]
Crashed(i) == MemberOutcome(i) \in {"raise", "up_task_error"}
\* every member has a status, in its own position
OnePerMember(r) ==
  /\ Len(response_data[r].monitored_hosts_status)
       = Len(settings.monitored_hosts)
  /\ \A i \in 1..Len(settings.monitored_hosts) :
       response_data[r].monitored_hosts_status[i].hostname
         = settings.monitored_hosts[i].alias

\* C23 as stated: in a finished run that checked the members, every member
\* has a status in its own position, and a member a sub-check of which
\* raised (its probe, or a gathered metrics or GPU task) has status "error".
C23_CrashedMemberIsError ==
  \A r \in Runs :
    MembersCollected(r) =>
      /\ OnePerMember(r)
      /\ \A i \in 1..Len(settings.monitored_hosts) :
           Crashed(i) =>
             response_data[r].monitored_hosts_status[i].status = "error"

\* C23, amended: in a finished run that checked the members, every member
\* has a status in its own position; a member whose probe raised has
\* status "error" and the message "Task execution failed: ..."; a member
\* whose gathered sub-check task raised has status "up" and a "Task Error"
\* diagnostic; every other member has the status its own check returned.
C23_CrashedMemberIsReported ==
  \A r \in Runs :
    MembersCollected(r) =>
      /\ OnePerMember(r)
      /\ \A i \in 1..Len(settings.monitored_hosts) :
           LET status == response_data[r].monitored_hosts_status[i]
           IN CASE MemberOutcome(i) = "raise" ->
                     /\ status.status = "error"
                     /\ status.error_message.pieces[1] = "Task execution failed: "
                [] MemberOutcome(i) = "up_task_error" ->
                     /\ status.status = "up"
                     /\ status.error_message.pieces[1] = "Metrics Task Error: "
                [] OTHER ->
                     status = get_full_host_status(
                                settings.monitored_hosts[i], MemberOutcome(i))

C23_Witness ==
  /\ MembersCollected("periodic")
  /\ Len(settings.monitored_hosts) = 2
  /\ MemberOutcome(1) = "raise"
  /\ MemberOutcome(2) = "up"
  /\ response_data["periodic"].monitored_hosts_status[1].status = "error"
  /\ response_data["periodic"].monitored_hosts_status[2].status = "up"

\* C24: every executor call a member's check issues names that member's own
\* alias, and in a finished run that checked the members (looked at before
\* the other run starts) the status of
\* member i is the one a collection produces in which the executor answers
\* differently for any one other configured member (hence, step by step,
\* for any number of them) and the same for member i.
C24_MemberChecksAreIsolated ==
  \A r \in Runs :
    /\ \A call \in ssh_calls[r] :
         call[1] # JumpCheck =>
           call[2] = settings.monitored_hosts[call[1]].alias
    /\ (MembersCollected(r) /\ \A q \in Runs \ {r} : run_pc[q] = "idle") =>
         \A i \in 1..Len(settings.monitored_hosts) :
           \A k \in 1..Len(settings.monitored_hosts) :
             \A outcome \in HostOutcomes \ {MemberOutcome(k)} :
               k # i =>
                 \A elsewhere \in
                     {FleetStatus(settings,
                        [executor EXCEPT
                           ![settings.monitored_hosts[k].alias] = outcome])
                        .monitored_hosts_status} :
                   /\ Len(response_data[r].monitored_hosts_status) >= i
                   /\ Len(elsewhere) >= i
                   /\ elsewhere[i]
                        = response_data[r].monitored_hosts_status[i]

\* the second member is up although the first member's check raised
C24_Witness ==
  /\ MembersCollected("get_status")
  /\ run_pc["periodic"] = "idle"
  /\ Len(settings.monitored_hosts) = 2
  /\ MemberOutcome(1) = "raise"
  /\ MemberOutcome(2) = "up_errors"
  /\ response_data["get_status"].monitored_hosts_status[2].status = "up"
  /\ \E call \in ssh_calls["get_status"] : call[1] = 2 /\ call[3] = TOP_CMD

\* a snapshot: the jump host's status exactly if one is configured, and one
\* status per configured member, every failure being a status value
TerminalStatuses == {"up", "down", "error", "skipped"}
WellFormedSnapshot(response) ==
  /\ response # None
  /\ IF settings.jump_host = NoJumpHost
       THEN response.jump_host_status = None
       ELSE /\ response.jump_host_status # None
            /\ IsHostStatus(response.jump_host_status)
            /\ response.jump_host_status.hostname = settings.jump_host
            /\ response.jump_host_status.status \in TerminalStatuses
  /\ Len(response.monitored_hosts_status) = Len(settings.monitored_hosts)
  /\ \A i \in 1..Len(settings.monitored_hosts) :
       /\ IsHostStatus(response.monitored_hosts_status[i])
       /\ response.monitored_hosts_status[i].hostname
            = settings.monitored_hosts[i].alias
       /\ response.monitored_hosts_status[i].status \in TerminalStatuses

\* C25: when every executor call returns, a collection that has started
\* ends, whatever the hosts' outcomes (down, timed out, raising), and a
\* collection that has ended has produced a well-formed snapshot.
C25_CollectionTerminates ==
  /\ \A r \in Runs :
       (run_pc[r] \in {"await_jump", "await_members"}) ~> (run_pc[r] = "done")
  /\ [](\A r \in Runs :
          run_pc[r] = "done" => WellFormedSnapshot(response_data[r]))

\* a collection ended with a member down and a member whose check raised
C25_Witness ==
  /\ run_pc["periodic"] = "done"
  /\ WellFormedSnapshot(response_data["periodic"])
  /\ MemberOutcome(1) = "down"
  /\ MemberOutcome(2) = "raise"
  /\ response_data["periodic"].monitored_hosts_status[1].status = "down"
  /\ response_data["periodic"].monitored_hosts_status[2].status = "error"

\* C26: a step of a request for /api/status leaves every variable of the
\* hub as it is (latest data and timestamp, the subscriber set and queues,
\* the activity event, the scheduler's position and timer), and the response
\* it ends with is the collection computed from the executor's answers,
\* also while nothing is cached.
C26_StatusQueryLeavesHubAlone ==
  [][(\/ run_pc'["get_status"] # run_pc["get_status"]
      \/ task_pc'["get_status"] # task_pc["get_status"]
      \/ response_data'["get_status"] # response_data["get_status"])
       => /\ UNCHANGED hubVars
          /\ run_pc'["get_status"] = "done" =>
               response_data'["get_status"] = FleetStatus(settings, executor)]_vars

\* a request for /api/status answered while nothing was cached
C26_Witness ==
  /\ run_pc["get_status"] = "done"
  /\ response_data["get_status"] # None
  /\ Len(response_data["get_status"].monitored_hosts_status) = 2
  /\ status_cache.latest_status_data = None
  /\ publishes = <<>>
  /\ sched_pc = "start"

\* the call of parse_nvidia_smi_csv is over
CsvParsed ==
  /\ parser_call # None
  /\ parser_call.function = "parse_nvidia_smi_csv"
  /\ parser_result # None

\* value is a field the conversion under key accepts
Coerces(key, value) ==
  \/ key \in StringKeys
  \/ IsNum(value)
  \/ key \in FloatKeys /\ IsDec(value)

\* line has as many fields as keys, and every numeric one coerces
WellFormed(line, keys) ==
  /\ Len(line) = Len(keys)
  /\ \A j \in 1..Len(keys) : Coerces(keys[j], line[j])

\* the k-th of the well-formed lines
NthWellFormed(lines, keys, k) ==
  CHOOSE i \in 1..Len(lines) :
    /\ WellFormed(lines[i], keys)
    /\ Cardinality({j \in 1..i : WellFormed(lines[j], keys)}) = k

\* C27: parse_nvidia_smi_csv returns (it never raises) one record for each
\* line that has exactly len(expected_keys) fields whose numeric ones all
\* coerce, in the order of the lines, each record holding under every key
\* the line's field converted; every other line leaves no record.
C27_OneRecordPerWellFormedLine ==
  CsvParsed =>
    /\ DOMAIN parser_result = {"returned"}
    /\ LET lines == parser_call.csv_output.lines
           keys == parser_call.expected_keys
           items == parser_result.returned
       IN /\ Len(items) =
               Cardinality({i \in 1..Len(lines) : WellFormed(lines[i], keys)})
          /\ \A k \in 1..Len(items) :
               /\ DOMAIN items[k] = {keys[j] : j \in 1..Len(keys)}
               /\ \A j \in 1..Len(keys) :
                    items[k][keys[j]] =
                      converted(keys[j],
                                lines[NthWellFormed(lines, keys, k)][j])

\* two rows, the second with one field too many: the first row's record
C27_Witness ==
  /\ CsvParsed
  /\ parser_call.expected_keys = GpuKeys
  /\ parser_call.csv_output = Lines(<<GpuLine(0), ExtraFieldLine>>)
  /\ "returned" \in DOMAIN parser_result
  /\ Len(parser_result.returned) = 1
  /\ parser_result.returned[1].index = 0

\* the call of parse_host_metrics is over
TopParsed ==
  /\ parser_call # None
  /\ parser_call.function = "parse_host_metrics"
  /\ parser_result # None

\* C28: parse_host_metrics returns None exactly when its input is None or
\* empty or both parse_cpu_usage and parse_memory_usage_from_top return
\* None; any other result holds the CPU usage exactly when the CPU parse
\* gave one and the three memory fields exactly when the memory parse gave
\* them, with the values the parses gave.
C28_PartialMetricsAreKept ==
  TopParsed =>
    LET top_output == parser_call.top_output
        metrics == parser_result.returned
        absent == top_output = None \/ top_output = Lines(<<>>)
        cpu_usage == parse_cpu_usage(top_output)
        mem_info == parse_memory_usage_from_top(top_output)
    IN /\ metrics = None <=>
            (absent \/ (cpu_usage = None /\ mem_info = None))
       /\ metrics # None =>
            /\ "cpu_usage_percent" \in DOMAIN metrics <=> cpu_usage # None
            /\ cpu_usage # None => metrics.cpu_usage_percent = cpu_usage.num
            /\ \A field \in {"ram_total_mb", "ram_used_mb",
                             "ram_usage_percent"} :
                 /\ field \in DOMAIN metrics <=> mem_info # None
                 /\ mem_info # None => metrics[field] = mem_info[field]

\* a CPU line alone gives metrics with the CPU usage and nothing else
C28_Witness ==
  /\ TopParsed
  /\ parser_call.top_output = Lines(<<UnparseableLine, CpuLine(900)>>)
  /\ parser_result.returned # None
  /\ DOMAIN parser_result.returned = {"cpu_usage_percent"}
  /\ parser_result.returned.cpu_usage_percent = 100

\* C29: the HostStatus a finished host check hands back, through
\* check_host_concurrently when get_full_host_status raised, has status up,
\* down or error (of the four terminal ones; skipped is given to hosts that
\* are not checked), never the "checking" it was created with.
C29_ReturnedStatusIsTerminal ==
  host_pc = "done" =>
    /\ returned_status(checked_config, host_status).status \in TerminalStatuses
    /\ returned_status(checked_config, host_status).status # "checking"

\* a check created "checking" that ended "down" when its probe failed
C29_Witness ==
  /\ host_pc = "done"
  /\ ssh_log = <<CHECK_REACHABILITY_CMD>>
  /\ ~IsException(host_status)
  /\ returned_status(checked_config, host_status).status = "down"

\* the commands of get_gpu_info: the tool probe, the base listing and the
\* process listing of an index
AcceleratorCmds ==
  {CHECK_NVIDIA_SMI_CMD, NVIDIA_SMI_GPU_QUERY_CMD} \cup ProcessCmds
Reachable ==
  /\ HasReturned(CHECK_REACHABILITY_CMD)
  /\ Returned(CHECK_REACHABILITY_CMD).rc = 0

\* C30: a host check issues a command of get_gpu_info only if its
\* configuration has check_gpu set and its reachability probe returned 0;
\* once the probe has returned 0 the top command is issued, whatever
\* check_gpu is; the configuration made for the jump host has check_gpu
\* unset, so its check issues no command of get_gpu_info.
C30_AcceleratorCommandsFollowPolicy ==
  /\ (\E k \in 1..Len(ssh_log) : ssh_log[k] \in AcceleratorCmds)
       => checked_config.check_gpu /\ Reachable
  /\ Reachable => Cardinality({k \in 1..Len(ssh_log) : ssh_log[k] = TOP_CMD}) = 1
  /\ checked_config.alias = JumpAlias =>
       /\ ~checked_config.check_gpu
       /\ \A k \in 1..Len(ssh_log) : ssh_log[k] \notin AcceleratorCmds

\* a reachable host with check_gpu whose check went as far as a process
\* listing, the top command issued beside
C30_Witness ==
  /\ checked_config.check_gpu
  /\ Reachable
  /\ Issued(TOP_CMD)
  /\ Issued(CHECK_NVIDIA_SMI_CMD)
  /\ Issued(NVIDIA_SMI_GPU_QUERY_CMD)
  /\ \E cmd \in ProcessCmds : Issued(cmd)
  /\ host_pc = "done"

\* the base listing returned with the same index on two of its lines
IndexListedTwice ==
  /\ Issued(NVIDIA_SMI_GPU_QUERY_CMD)
  /\ \E i, j \in 1..Len(gpu_indices) : i # j /\ gpu_indices[i] = gpu_indices[j]

\* C31: whatever the base listing was, the gpus of the HostStatus a finished
\* check hands back, when present, hold no index twice; a check whose
\* listing named an index twice hands back no gpus.
C31_ReportedIndexesAreDistinct ==
  (host_pc = "done" /\ ~IsException(host_status)) =>
    /\ host_status.gpus # None =>
         \A i, j \in 1..Len(host_status.gpus.list) :
           host_status.gpus.list[i].index = host_status.gpus.list[j].index
             => i = j
    /\ IndexListedTwice => host_status.gpus = None

\* a finished check of a reachable host whose listing named index 0 twice:
\* get_gpu_info raised and the status carries the task's error, no gpus
C31_Witness ==
  /\ UpAndDone
  /\ IndexListedTwice
  /\ gpu_indices = <<0, 0>>
  /\ IsException(gpu_result)
  /\ host_status.gpus = None
  /\ contains(host_status.error_message, "GPU Task Error: ")

\* the tool probe of a finished check of a reachable host returned an exit
\* code other than 0 and 1: it could not be run, timed out, or failed
ProbeFailedBadly ==
  /\ UpAndDone
  /\ checked_config.check_gpu
  /\ HasReturned(CHECK_NVIDIA_SMI_CMD)
  /\ Returned(CHECK_NVIDIA_SMI_CMD).rc \notin {0, 1}

\* C32: a finished check of a reachable host whose tool probe returned an
\* exit code other than 0 and 1 has status "up" and an error_message that
\* holds the diagnostic check_nvidia_smi wrote for the probe.
C32_ProbeFailureIsSurfaced ==
  ProbeFailedBadly =>
    /\ host_status.status = "up"
    /\ host_status.error_message # None
    /\ contains(host_status.error_message, "nvidia-smi not found")
    /\ contains(host_status.error_message, " or check failed on ")

\* ---- claims about the cache and the subscribers' queues (Spec)

\* C33: while latest_status_data is set, the last message put to the queue
\* of every client in connected_clients is the wire message of the cache's
\* data and timestamp, whether get_status_sse put it as the initial message
\* or a broadcast did.  (The update, the broadcast and every put run without
\* a suspension: no state lies inside a publish.)
C33_LastEnqueuedIsLatest ==
  status_cache.latest_status_data # None =>
    \A v \in status_cache.connected_clients :
      /\ enqueued[v] # <<>>
      /\ Last(enqueued[v]).message =
           WireMessage(status_cache.latest_status_data,
                       status_cache.latest_status_timestamp)

\* two registered clients after the second publish, one that registered
\* before it and one that registered after it
C33_Witness ==
  /\ Len(publishes) = 2
  /\ \E u, v \in status_cache.connected_clients :
       /\ enqueued[u] # <<>> /\ Last(enqueued[u]).via = "broadcast"
       /\ Len(enqueued[u]) = 2
       /\ enqueued[v] # <<>> /\ Last(enqueued[v]).via = "initial"
       /\ Last(enqueued[u]).message = Last(enqueued[v]).message
       /\ Last(enqueued[u]).message.last_updated
            = status_cache.latest_status_timestamp

\* the cache's latest snapshot: its data and its timestamp
Latest == <<status_cache.latest_status_data,
            status_cache.latest_status_timestamp>>

\* C34: latest_status_data, once set, is never None again; the cache's data
\* and timestamp change only in the step in which the scheduler ends a
\* Collecting phase that did not fail, which is a publish; the step that
\* ends a failed Collecting phase leaves them as they are and puts nothing
\* to any queue, and so do a registration, a disconnect and every other
\* step.
C34_LatestChangesOnlyOnPublish ==
  [][/\ status_cache.latest_status_data # None
          => status_cache'.latest_status_data # None
     /\ Latest' # Latest
          => /\ sched_pc = "collecting" /\ sched_pc' # "collecting"
             /\ ~phase_failed'
             /\ Len(publishes') = Len(publishes) + 1
             /\ status_cache'.latest_status_data = Last(publishes').data
     /\ (sched_pc = "collecting" /\ sched_pc' # "collecting" /\ phase_failed')
          => /\ Latest' = Latest
             /\ enqueued' = enqueued
             /\ client_queue' = client_queue]_vars

\* a Collecting phase failed after a publish, with a client registered: the
\* cache still holds the first publish and the client its one message
C34_Witness ==
  /\ phase_failed
  /\ sched_pc \in WaitStates
  /\ Len(publishes) = 1
  /\ status_cache.latest_status_data = publishes[1].data
  /\ status_cache.latest_status_timestamp = publishes[1].timestamp
  /\ clock = 2
  /\ \E v \in status_cache.connected_clients : Len(enqueued[v]) = 1

\* ---- claims about the snapshots of a collection (SpecCollect)

\* the HostStatus values of a snapshot: the jump host's, if any, and the
\* members'
StatusesOf(response) ==
  (IF response.jump_host_status = None THEN {}
   ELSE {response.jump_host_status})
    \cup {response.monitored_hosts_status[i] :
            i \in 1..Len(response.monitored_hosts_status)}

\* the snapshots there are: what each run built, what was published, what
\* the cache holds
Snapshots ==
  {response_data[r] : r \in {q \in Runs : response_data[q] # None}}
    \cup {publishes[k].data : k \in 1..Len(publishes)}
    \cup (IF status_cache.latest_status_data = None THEN {}
          ELSE {status_cache.latest_status_data})

\* C35: in every snapshot a run built, published or cached, a HostStatus
\* with status down, skipped or error has a non-empty error_message, no
\* metrics and no gpus; so metrics or gpus are present only with status up.
C35_NotUpHasMessageAndNoData ==
  \A response \in Snapshots :
    \A status \in StatusesOf(response) :
      /\ status.status \in TerminalStatuses
      /\ status.status # "up" =>
           /\ status.error_message # None
           /\ status.error_message.pieces # <<>>
           /\ status.metrics = None
           /\ status.gpus = None
      /\ (status.metrics # None \/ status.gpus # None) => status.status = "up"

\* a published snapshot whose jump host check raised: the jump host has
\* status error and both members are skipped
C35_Witness ==
  /\ publishes # <<>>
  /\ publishes[1].data.jump_host_status # None
  /\ publishes[1].data.jump_host_status.status = "error"
  /\ Len(publishes[1].data.monitored_hosts_status) = 2
  /\ \A i \in 1..2 :
       publishes[1].data.monitored_hosts_status[i].status = "skipped"

\* the scheduler's run and a status query have both finished, and the
\* scheduler's snapshot is published
BothCollected ==
  /\ run_pc["periodic"] = "done"
  /\ run_pc["get_status"] = "done"
  /\ publishes # <<>>

\* C36: for one configuration and one set of remote-executor outcomes, the
\* snapshot the scheduler published and the snapshot the status query
\* returned have the same jump host status and the same member statuses, in
\* whichever order the two ran and in whichever order their member checks
\* finished.
C36_CollectorsAgree ==
  BothCollected =>
    LET published == publishes[Len(publishes)].data
        returned == response_data["get_status"]
    IN /\ published.jump_host_status = returned.jump_host_status
       /\ published.monitored_hosts_status = returned.monitored_hosts_status

\* both have finished behind a jump host reporting "error", and both marked
\* the two members skipped
C36_Witness ==
  /\ BothCollected
  /\ response_data["get_status"].jump_host_status # None
  /\ response_data["get_status"].jump_host_status.status = "error"
  /\ Len(response_data["get_status"].monitored_hosts_status) = MaxMembers
  /\ publishes[Len(publishes)].data.monitored_hosts_status[1].status
       = "skipped"

====
